---- MODULE Spec2Model ----
(***************************************************************************)
(* Model of the gotulua data-access engine (package gormfunc): one Table   *)
(* handle over one storage table created by CreateTable with the columns   *)
(*   id INTEGER PRIMARY KEY AUTOINCREMENT, n Integer, b Boolean,           *)
(* its Rowset (Rows, Pos), its filters, the CRUD and cursor operations,    *)
(* the Lua and browse entry points that call them, and the hook dispatch.  *)
(*                                                                         *)
(* An operation is an operator from the state before it to a Result; an    *)
(* operation that calls another is the composition of the two.  Where an   *)
(* operator needs an intermediate value several times, the value is        *)
(* handed to a second operator as a parameter.                             *)
(***************************************************************************)
EXTENDS Integers, Sequences, FiniteSets, TLC

\* ------------------------------------------------------------------ bounds
\* Number of primary keys the storage engine hands out (AUTOINCREMENT).
MaxId == 2
\* Longest Rowset an operation may leave.
MaxRows == 2
\* Deepest nesting of hook bodies the model follows.
MaxDepth == 2
\* Most Table calls one hook body makes.
MaxHookOps == 2
\* Most clauses in the structure of one createTable or alterTable call.
MaxClauses == 2
\* Last step of a DDL call at which the storage engine may fail.
MaxFailAt == 4
\* Most rows of table_metadata when a temporary table is created.
MaxMeta == 6

\* ------------------------------------------------------------ Go values
\* A Go interface{} value: its dynamic type and its value.  Two interface
\* values are == in Go only when both the dynamic type and the value agree.
\* (v carries a number, s a string; the other field is idle.)  A string
\* the program takes apart is a sequence of one-character strings:
\* "true" is <<"t", "r", "u", "e">>.
GoInt(v) == [t |-> "int", v |-> v, s |-> <<>>]
GoInt64(v) == [t |-> "int64", v |-> v, s |-> <<>>]
GoFloat64(v) == [t |-> "float64", v |-> v, s |-> <<>>]
GoString(s) == [t |-> "string", v |-> 0, s |-> s]
GoNil == [t |-> "nil", v |-> 0, s |-> <<>>]

PrimaryKeyField == "id"
Columns == {"id", "n", "b", "t"}
DataColumns == {"n", "b", "t"}

\* Rows of table_metadata for the model's table, as CreateTable stores them:
\* one row for every declared field, the logical tag empty for plain types.
TableMetadata ==
  [n |-> [ActualType |-> "INTEGER", LogicalType |-> ""],
   b |-> [ActualType |-> "INTEGER", LogicalType |-> "BOOLEAN"],
   t |-> [ActualType |-> "TEXT", LogicalType |-> "TIME"]]

getFieldMetadata(field) ==
  IF field \in DOMAIN TableMetadata THEN TableMetadata[field] ELSE GoNil

\* The type fillFieldsMeta records for a column with a metadata row.
MetaType(metadata) ==
  IF metadata.LogicalType # "" THEN metadata.LogicalType
  ELSE metadata.ActualType

\* The zero fillFieldsMeta caches as the default of a column of type tp.
ZeroOf(tp) ==
  CASE tp \in {"DATE", "TIME", "DATETIME", "TEXT"} -> GoString(<<>>)
    [] tp = "BOOLEAN" -> GoInt(0)
    [] tp \in {"INTEGER", "INT"} -> GoInt(0)
    [] tp \in {"REAL", "FLOAT", "DOUBLE"} -> GoFloat64(0)
    [] OTHER -> GoNil

\* fillFieldsMeta: the default value cached for one column.  A column with a
\* metadata row takes the zero of its logical (else actual) type; the id
\* column has no metadata row and no declared default, its type INTEGER
\* gives int 0.
fillFieldsMeta(colName) ==
  IF getFieldMetadata(colName) # GoNil
  THEN ZeroOf(MetaType(getFieldMetadata(colName)))
  ELSE GoInt(0)

defaultFieldValues == [c \in Columns |-> fillFieldsMeta(c)]

\* The type Find compiles a filter by: fieldTypes[field], "" when unknown.
GetFieldType(field) ==
  IF field = PrimaryKeyField THEN "INTEGER"
  ELSE IF getFieldMetadata(field) # GoNil
  THEN MetaType(getFieldMetadata(field))
  ELSE ""

\* ------------------------------------------------------------------ state
VARIABLES
  store,       \* storage rows of the table: id -> [n, b, t] (t is TEXT)
  nextId,      \* next value of the AUTOINCREMENT primary key
  loaded,      \* t.Rows # nil
  rows,        \* t.Rows.Rows
  pos,         \* t.Rows.Pos
  XRecord,     \* t.XRecord, the pre-update / pre-delete snapshot
  hooks,       \* which of OnAfterInsert/OnAfterUpdate/OnAfterDelete are set
  isFunction,  \* whether the Lua global each hook name refers to is a function
  afterUpdateRunning,  \* syncfunc.afterUpdateRunning (process-wide)
  lastErrorText,       \* statefunc.lastErrorText ("" = no error)
  filteredFields,      \* t.filteredFields: field -> filter expression
  rangeFilter,         \* t.rangeFilter: <<>> or <<min, max>>
  filterByField,       \* t.filterByField
  orderBy,             \* t.orderBy
  stack,       \* hook bodies being executed, outermost first
  other,       \* a second Table opened over the same storage table
  db,          \* the database: its tables' columns, the rows of table_metadata
  formats,     \* timefunc.DateFormat, TimeFormat, DateTimeFormat
  last         \* the last operation: its name, inputs and result

vars == <<store, nextId, loaded, rows, pos, XRecord, hooks, isFunction,
          afterUpdateRunning, lastErrorText, filteredFields, rangeFilter,
          filterByField, orderBy, stack, other, db, formats, last>>

\* The Table and the process-wide state as one value (raised: a script
\* error raised by a callee is on its way up through the callers).
Cur ==
  [store |-> store, nextId |-> nextId, loaded |-> loaded, rows |-> rows,
   pos |-> pos, XRecord |-> XRecord, hooks |-> hooks,
   isFunction |-> isFunction, raised |-> FALSE,
   afterUpdateRunning |-> afterUpdateRunning,
   lastErrorText |-> lastErrorText, filteredFields |-> filteredFields,
   rangeFilter |-> rangeFilter, filterByField |-> filterByField,
   orderBy |-> orderBy, stack |-> stack, other |-> other, db |-> db,
   formats |-> formats, self |-> "first"]

Commit(s) ==
  /\ store' = s.store
  /\ nextId' = s.nextId
  /\ loaded' = s.loaded
  /\ rows' = s.rows
  /\ pos' = s.pos
  /\ XRecord' = s.XRecord
  /\ hooks' = s.hooks
  /\ isFunction' = s.isFunction
  /\ afterUpdateRunning' = s.afterUpdateRunning
  /\ lastErrorText' = s.lastErrorText
  /\ filteredFields' = s.filteredFields
  /\ rangeFilter' = s.rangeFilter
  /\ filterByField' = s.filterByField
  /\ orderBy' = s.orderBy
  /\ stack' = s.stack
  /\ other' = s.other
  /\ db' = s.db
  /\ formats' = s.formats

\* ---------------------------------------------------------------- strings
\* strings.ToUpper / ToLower / TrimSpace / HasPrefix / TrimPrefix / Trim
UpperOf ==
  [t |-> "T", r |-> "R", u |-> "U", e |-> "E", f |-> "F", a |-> "A",
   l |-> "L", s |-> "S"]
LowerOf ==
  [T |-> "t", R |-> "r", U |-> "u", E |-> "e", F |-> "f", A |-> "a",
   L |-> "l", S |-> "s"]
ToUpper(str) ==
  [i \in DOMAIN str |-> IF str[i] \in DOMAIN UpperOf THEN UpperOf[str[i]]
                        ELSE str[i]]
ToLower(str) ==
  [i \in DOMAIN str |-> IF str[i] \in DOMAIN LowerOf THEN LowerOf[str[i]]
                        ELSE str[i]]

\* strings.Trim(str, c): str without its leading and trailing c's.
Trim(str, c) ==
  LET RECURSIVE left(_), right(_)
      left(x) == IF x # <<>> /\ Head(x) = c THEN left(Tail(x)) ELSE x
      right(x) == IF x # <<>> /\ x[Len(x)] = c
                  THEN right(SubSeq(x, 1, Len(x) - 1)) ELSE x
  IN right(left(str))

TrimSpace(str) == Trim(str, " ")

HasPrefix(str, prefix) ==
  Len(str) >= Len(prefix) /\ SubSeq(str, 1, Len(prefix)) = prefix

TrimPrefix(str, prefix) ==
  IF HasPrefix(str, prefix) THEN SubSeq(str, Len(prefix) + 1, Len(str)) ELSE str

Contains(str, c) == \E i \in DOMAIN str : str[i] = c

\* Decimal digits, and the number a digit string spells.
Digits == <<"0", "1", "2", "3", "4", "5", "6", "7", "8", "9">>
IsDigits(str) ==
  str # <<>> /\ \A i \in DOMAIN str : \E d \in DOMAIN Digits : Digits[d] = str[i]
DigitValue(c) == (CHOOSE d \in DOMAIN Digits : Digits[d] = c) - 1
Atoi(str) ==
  LET RECURSIVE val(_, _)
      val(i, acc) == IF i > Len(str) THEN acc
                     ELSE val(i + 1, acc * 10 + DigitValue(str[i]))
  IN val(1, 0)

\* fmt.Sprintf("%d", v) for the one-digit integers of the model
Sprintf_d(v) == <<Digits[v + 1]>>

\* ------------------------------------------------------------- booleans
\* boolfunc.FormatBool(inp, ToInternalFormat)
FormatBoolToInternal(inp) ==
  IF ToUpper(inp) = <<"1">> \/ ToUpper(inp) = <<"0">> THEN ToUpper(inp)
  ELSE IF ToLower(inp) = <<"t", "r", "u", "e">> \/ ToLower(inp) = <<"1">>
  THEN <<"1">>
  ELSE <<"0">>

\* ---------------------------------------------------------------- times
\* timefunc: the canonical templates and the display templates the process
\* starts with.  The logical types are "DATE", "TIME" and "DATETIME".
ToInternalFormat == 0
ToUserFormat == 1
TimeTypes == {"DATE", "TIME", "DATETIME"}

InternalDateFormat == <<"y", "y", "y", "y", "m", "m", "d", "d">>
InternalTimeFormat == <<"h", "h", "i", "i", "s", "s">>
InternalDateTimeFormat == InternalDateFormat \o InternalTimeFormat
DateFormat == <<"d", "d", ".", "m", "m", ".", "y", "y", "y", "y">>
TimeFormat == <<"h", "h", ":", "i", "i", ":", "s", "s">>
DateTimeFormat == DateFormat \o <<" ">> \o TimeFormat

InternalFormats ==
  [DATE |-> InternalDateFormat, TIME |-> InternalTimeFormat,
   DATETIME |-> InternalDateTimeFormat]
\* var DateFormat, TimeFormat, DateTimeFormat as the package declares them.
StartFormats ==
  [DATE |-> DateFormat, TIME |-> TimeFormat, DATETIME |-> DateTimeFormat]

\* strings.Index: where old first occurs in str, 0 when nowhere.
Index(str, old) ==
  IF \E i \in 1..(Len(str) - Len(old) + 1) :
       SubSeq(str, i, i + Len(old) - 1) = old
  THEN CHOOSE i \in 1..(Len(str) - Len(old) + 1) :
         /\ SubSeq(str, i, i + Len(old) - 1) = old
         /\ \A j \in 1..(i - 1) : SubSeq(str, j, j + Len(old) - 1) # old
  ELSE 0

\* strings.Contains for a substring.
ContainsStr(str, sub) == Index(str, sub) # 0

SpliceAt(str, i, n, new) ==
  IF i = 0 THEN str
  ELSE SubSeq(str, 1, i - 1) \o new \o SubSeq(str, i + n, Len(str))

\* strings.Replace(str, old, new, 1)
ReplaceOnce(str, old, new) == SpliceAt(str, Index(str, old), Len(old), new)

\* TemplateToRegexp: every template letter pair becomes two \d (one element
\* "\\d" of the sequence stands for the two characters of the pattern).
TwoDigitsPattern == <<"\\d", "\\d">>
FourDigitsPattern == <<"\\d", "\\d", "\\d", "\\d">>
TemplateYearToRegexp(t1) ==
  IF ReplaceOnce(t1, <<"y", "y", "y", "y">>, FourDigitsPattern) = t1
  THEN ReplaceOnce(t1, <<"y", "y">>, TwoDigitsPattern)
  ELSE ReplaceOnce(t1, <<"y", "y", "y", "y">>, FourDigitsPattern)
TemplateToRegexp(tpl) ==
  ReplaceOnce(
    ReplaceOnce(
      ReplaceOnce(
        ReplaceOnce(
          TemplateYearToRegexp(ReplaceOnce(tpl, <<"d", "d">>, TwoDigitsPattern)),
          <<"m", "m">>, TwoDigitsPattern),
        <<"h", "h">>, TwoDigitsPattern),
      <<"i", "i">>, TwoDigitsPattern),
    <<"s", "s">>, TwoDigitsPattern)

IsDigit(c) == \E d \in DOMAIN Digits : Digits[d] = c

\* regexp.MatchString for the patterns TemplateToRegexp yields: the pattern
\* is not anchored, so it matches anywhere inside the value; "." matches any
\* character.
MatchString(re, value) ==
  \E o \in 0..(Len(value) - Len(re)) :
    \A i \in DOMAIN re :
      CASE re[i] = "\\d" -> IsDigit(value[o + i])
        [] re[i] = "." -> TRUE
        [] OTHER -> value[o + i] = re[i]

\* checkFormatType(value, extType) under the display templates fm:
\* 0 canonical, 1 display, -1 neither.
checkFormatType(fm, value, extType) ==
  IF MatchString(TemplateToRegexp(InternalFormats[extType]), value) THEN 0
  ELSE IF MatchString(TemplateToRegexp(fm[extType]), value) THEN 1
  ELSE -1

\* checkNoExtraSymbolsInTemplate: ^[ymdhis./: -]+$
checkNoExtraSymbolsInTemplate(tpl) ==
  /\ tpl # <<>>
  /\ \A i \in DOMAIN tpl :
       tpl[i] \in {"y", "m", "d", "h", "i", "s", ".", "/", ":", " ", "-"}

\* customTemplateToGoTemplate(ct, mode): <<layout, ok>>.  yyyy (else yy), mm
\* and dd become 2006 (06), 01 and 02; hh, ii and ss become 15, 04 and 05.
\* A token counts as missing only when the layout built so far still equals
\* the text the part started from.
YearToGo(t) ==
  IF ReplaceOnce(t, <<"y", "y", "y", "y">>, <<"2", "0", "0", "6">>) = t
  THEN ReplaceOnce(t, <<"y", "y">>, <<"0", "6">>)
  ELSE ReplaceOnce(t, <<"y", "y", "y", "y">>, <<"2", "0", "0", "6">>)
MonthToGo(g) == ReplaceOnce(g, <<"m", "m">>, <<"0", "1">>)
DayToGo(g) == ReplaceOnce(g, <<"d", "d">>, <<"0", "2">>)
DateToGo(t) == DayToGo(MonthToGo(YearToGo(t)))
DateTokenMissing(t) ==
  YearToGo(t) = t \/ MonthToGo(YearToGo(t)) = t \/ DateToGo(t) = t

HourToGo(t) == ReplaceOnce(t, <<"h", "h">>, <<"1", "5">>)
MinuteToGo(g) == ReplaceOnce(g, <<"i", "i">>, <<"0", "4">>)
SecondToGo(g) == ReplaceOnce(g, <<"s", "s">>, <<"0", "5">>)
TimeToGo(t) == SecondToGo(MinuteToGo(HourToGo(t)))
TimeTokenMissing(t) ==
  HourToGo(t) = t \/ MinuteToGo(HourToGo(t)) = t \/ TimeToGo(t) = t

NoTemplate == <<<<>>, FALSE>>
customTemplateToGoTemplate(ct, mode) ==
  IF mode \notin TimeTypes \/ ~checkNoExtraSymbolsInTemplate(ct) THEN NoTemplate
  ELSE IF mode = "DATE"
  THEN IF DateTokenMissing(ct) THEN NoTemplate ELSE <<DateToGo(ct), TRUE>>
  ELSE IF mode = "TIME"
  THEN IF TimeTokenMissing(ct) THEN NoTemplate ELSE <<TimeToGo(ct), TRUE>>
  ELSE IF DateTokenMissing(ct) \/ TimeTokenMissing(DateToGo(ct)) THEN NoTemplate
  ELSE <<TimeToGo(DateToGo(ct)), TRUE>>

\* The days of month m of year y.
IsLeap(y) == y % 4 = 0 /\ (y % 100 # 0 \/ y % 400 = 0)
daysIn(m, y) ==
  IF m = 2 THEN (IF IsLeap(y) THEN 29 ELSE 28)
  ELSE IF m \in {4, 6, 9, 11} THEN 30 ELSE 31

\* time.Parse(layout, value) for layouts of 2006, 06, 01, 02, 15, 04, 05 and
\* literals: <<ok, [Y, M, D, h, m, s]>>.  The long year takes four digits,
\* the short year two (69..99 are 19xx, the rest 20xx); month and day take
\* exactly two digits, the month within 1..12, the day checked against the
\* month at the end; the hour takes one or two digits and is below 24;
\* minute and second take exactly two digits and are below 60; a literal
\* matches itself; text left over is an error.  (No value of the model has
\* a sign or a fraction of a second.)
ZeroTime == [Y |-> 0, M |-> 1, D |-> 1, h |-> 0, m |-> 0, s |-> 0]
HasDigits(v, n) == Len(v) >= n /\ \A i \in 1..n : IsDigit(v[i])
Parse(layout, value) ==
  LET RECURSIVE parse(_, _, _)
      parse(l, v, t) ==
        IF l = <<>>
        THEN <<v = <<>> /\ t.D >= 1 /\ t.D <= daysIn(t.M, t.Y), t>>
        ELSE IF HasPrefix(l, <<"2", "0", "0", "6">>)
        THEN IF ~HasDigits(v, 4) THEN <<FALSE, t>>
             ELSE parse(SubSeq(l, 5, Len(l)), SubSeq(v, 5, Len(v)),
                        [t EXCEPT !.Y = Atoi(SubSeq(v, 1, 4))])
        ELSE IF HasPrefix(l, <<"0", "6">>)
        THEN IF ~HasDigits(v, 2) THEN <<FALSE, t>>
             ELSE parse(SubSeq(l, 3, Len(l)), SubSeq(v, 3, Len(v)),
                        [t EXCEPT !.Y = IF Atoi(SubSeq(v, 1, 2)) >= 69
                                        THEN 1900 + Atoi(SubSeq(v, 1, 2))
                                        ELSE 2000 + Atoi(SubSeq(v, 1, 2))])
        ELSE IF HasPrefix(l, <<"0", "1">>)
        THEN IF ~HasDigits(v, 2) \/ Atoi(SubSeq(v, 1, 2)) \notin 1..12
             THEN <<FALSE, t>>
             ELSE parse(SubSeq(l, 3, Len(l)), SubSeq(v, 3, Len(v)),
                        [t EXCEPT !.M = Atoi(SubSeq(v, 1, 2))])
        ELSE IF HasPrefix(l, <<"0", "2">>)
        THEN IF ~HasDigits(v, 2) THEN <<FALSE, t>>
             ELSE parse(SubSeq(l, 3, Len(l)), SubSeq(v, 3, Len(v)),
                        [t EXCEPT !.D = Atoi(SubSeq(v, 1, 2))])
        ELSE IF HasPrefix(l, <<"1", "5">>)
        THEN IF v = <<>> \/ ~IsDigit(v[1]) THEN <<FALSE, t>>
             ELSE IF Len(v) >= 2 /\ IsDigit(v[2])
             THEN IF Atoi(SubSeq(v, 1, 2)) >= 24 THEN <<FALSE, t>>
                  ELSE parse(SubSeq(l, 3, Len(l)), SubSeq(v, 3, Len(v)),
                             [t EXCEPT !.h = Atoi(SubSeq(v, 1, 2))])
             ELSE parse(SubSeq(l, 3, Len(l)), Tail(v),
                        [t EXCEPT !.h = Atoi(<<v[1]>>)])
        ELSE IF HasPrefix(l, <<"0", "4">>) \/ HasPrefix(l, <<"0", "5">>)
        THEN IF ~HasDigits(v, 2) \/ Atoi(SubSeq(v, 1, 2)) >= 60
             THEN <<FALSE, t>>
             ELSE parse(SubSeq(l, 3, Len(l)), SubSeq(v, 3, Len(v)),
                        IF l[2] = "4"
                        THEN [t EXCEPT !.m = Atoi(SubSeq(v, 1, 2))]
                        ELSE [t EXCEPT !.s = Atoi(SubSeq(v, 1, 2))])
        ELSE IF v # <<>> /\ v[1] = l[1] THEN parse(Tail(l), Tail(v), t)
        ELSE <<FALSE, t>>
  IN parse(layout, value, ZeroTime)

\* Time.Format(layout) for the same layouts.
TwoDigits(v) == <<Digits[(v \div 10) + 1], Digits[(v % 10) + 1]>>
FourDigits(v) == TwoDigits(v \div 100) \o TwoDigits(v % 100)
Format(t, layout) ==
  LET RECURSIVE format(_)
      format(l) ==
        IF l = <<>> THEN <<>>
        ELSE IF HasPrefix(l, <<"2", "0", "0", "6">>)
        THEN FourDigits(t.Y) \o format(SubSeq(l, 5, Len(l)))
        ELSE IF HasPrefix(l, <<"0", "6">>)
        THEN TwoDigits(t.Y % 100) \o format(SubSeq(l, 3, Len(l)))
        ELSE IF HasPrefix(l, <<"0", "1">>)
        THEN TwoDigits(t.M) \o format(SubSeq(l, 3, Len(l)))
        ELSE IF HasPrefix(l, <<"0", "2">>)
        THEN TwoDigits(t.D) \o format(SubSeq(l, 3, Len(l)))
        ELSE IF HasPrefix(l, <<"1", "5">>)
        THEN TwoDigits(t.h) \o format(SubSeq(l, 3, Len(l)))
        ELSE IF HasPrefix(l, <<"0", "4">>)
        THEN TwoDigits(t.m) \o format(SubSeq(l, 3, Len(l)))
        ELSE IF HasPrefix(l, <<"0", "5">>)
        THEN TwoDigits(t.s) \o format(SubSeq(l, 3, Len(l)))
        ELSE <<l[1]>> \o format(Tail(l))
  IN format(layout)

\* FormatDateTime(inp, mode, direction) under the display templates fm:
\* <<ret, ok>>.  The value is parsed by the source template and written by
\* the destination template; "" stays "".
SourceFormat(fm, mode, direction) ==
  IF direction = ToInternalFormat THEN fm[mode] ELSE InternalFormats[mode]
DestinationFormat(fm, mode, direction) ==
  IF direction = ToInternalFormat THEN InternalFormats[mode] ELSE fm[mode]
FormatParsed(parsed, gd) ==
  IF ~parsed[1] \/ ~gd[2] THEN <<<<>>, FALSE>>
  ELSE <<Format(parsed[2], gd[1]), TRUE>>
FormatWith(inp, gs, gd) ==
  IF ~gs[2] THEN <<<<>>, FALSE>>
  ELSE FormatParsed(Parse(gs[1], inp), gd)
FormatDateTime(fm, inp, mode, direction) ==
  IF mode \notin TimeTypes THEN <<<<>>, FALSE>>
  ELSE IF inp = <<>> THEN <<<<>>, TRUE>>
  ELSE FormatWith(inp,
                  customTemplateToGoTemplate(SourceFormat(fm, mode, direction),
                                             mode),
                  customTemplateToGoTemplate(
                    DestinationFormat(fm, mode, direction), mode))

\* CheckDateTimeConsistent(inp, mode, direction): no error.  The value is
\* parsed by the canonical template for ToInternalFormat, by the display
\* template otherwise.
ConsistentWith(inp, g) == g[2] /\ Parse(g[1], inp)[1]
CheckDateTimeConsistent(fm, inp, mode, direction) ==
  /\ mode \in TimeTypes
  /\ \/ inp = <<>>
     \/ ConsistentWith(inp,
                       customTemplateToGoTemplate(
                         DestinationFormat(fm, mode, direction), mode))

\* checkIfDTFormatIsValid(df, dtType): no error.  For a date part the
\* template must hold yy and yyyyy, mm or MM but not both, neither mmm nor
\* MMM, dd and ddd; for a time part hh, yyy, ii but not iii, ss and sss.
Has(df, sub) == ContainsStr(df, sub)
DatePartIsValid(df) ==
  /\ Has(df, <<"y", "y">>)
  /\ Has(df, <<"y", "y", "y", "y", "y">>)
  /\ (Has(df, <<"m", "m">>) \/ Has(df, <<"M", "M">>))
  /\ ~(Has(df, <<"m", "m">>) /\ Has(df, <<"M", "M">>))
  /\ ~(Has(df, <<"m", "m", "m">>) \/ Has(df, <<"M", "M", "M">>))
  /\ Has(df, <<"d", "d">>)
  /\ Has(df, <<"d", "d", "d">>)
TimePartIsValid(df) ==
  /\ Has(df, <<"h", "h">>)
  /\ Has(df, <<"y", "y", "y">>)
  /\ Has(df, <<"i", "i">>)
  /\ ~Has(df, <<"i", "i", "i">>)
  /\ Has(df, <<"s", "s">>)
  /\ Has(df, <<"s", "s", "s">>)
checkIfDTFormatIsValid(df, dtType) ==
  /\ df # <<>>
  /\ (dtType \in {"DATE", "DATETIME"} => DatePartIsValid(df))
  /\ (dtType \in {"TIME", "DATETIME"} => TimePartIsValid(df))

\* SetDateFormat, SetTimeFormat, SetDateTimeFormat: an error of the check is
\* thrown as a script error, which unwinds the call before the assignment;
\* otherwise the template is assigned.
FormatResult(fm, res) == [fm |-> fm, res |-> res]
SetFormat(fm, df, dtType) ==
  IF checkIfDTFormatIsValid(df, dtType)
  THEN FormatResult([fm EXCEPT ![dtType] = df], "true")
  ELSE FormatResult(fm, "panic")
SetDateFormat(fm, df) == SetFormat(fm, df, "DATE")
SetTimeFormat(fm, tf) == SetFormat(fm, tf, "TIME")
SetDateTimeFormat(fm, dtf) == SetFormat(fm, dtf, "DATETIME")

\* ------------------------------------------------------------ conversions
\* A conversion yields <<finalValue, ok, how>>: how it failed is "script"
\* (ThrowError with ErrorTypeScript and doPanic, or a Go runtime fault: the
\* running script is aborted) or "data" (ThrowError with ErrorTypeData and
\* no panic: a modal message is shown and the conversion returns false).
Converted(value) == <<value, TRUE, "">>
ScriptError == <<GoNil, FALSE, "script">>
DataError == <<GoNil, FALSE, "data">>

\* The Date/Time/DateTime case for a string: the empty string stays; a
\* value of neither form is a script error; a display-form value is
\* reformatted (a parse failure is a data error); the canonical value must
\* pass the consistency check (a failure is a data error).  The scripts
\* that run Table operations set no template, so the display templates are
\* the ones the process starts with.
TimeConsistent(final, tp) ==
  IF CheckDateTimeConsistent(StartFormats, final, tp, ToInternalFormat)
  THEN Converted(GoString(final))
  ELSE DataError
TimeFormatted(formatted, tp) ==
  IF ~formatted[2] THEN DataError ELSE TimeConsistent(formatted[1], tp)
TimeOfType(str, ft, tp) ==
  IF ft = -1 THEN ScriptError
  ELSE IF ft = 1
  THEN TimeFormatted(FormatDateTime(StartFormats, str, tp, ToInternalFormat),
                     tp)
  ELSE TimeConsistent(str, tp)
TimeToInternal(value, tp) ==
  IF value.t # "string" THEN ScriptError
  ELSE IF value.s = <<>> THEN TimeConsistent(<<>>, tp)
  ELSE TimeOfType(value.s, checkFormatType(StartFormats, value.s, tp), tp)

\* fieldUserFormatToInternalFormat(field, value, ""): <<finalValue, ok, how>>.
\* A field tagged DATE, TIME or DATETIME takes a string (any other dynamic
\* type fails the *interface{} assertion, a runtime fault).  A field tagged
\* BOOLEAN accepts int, int64 and string and yields "1"/"0"; any other
\* dynamic type is a script error.  A field with a plain metadata row, or
\* with none, passes the value through.
fieldUserFormatToInternalFormat(field, value) ==
  IF getFieldMetadata(field) = GoNil THEN Converted(value)
  ELSE IF getFieldMetadata(field).LogicalType \in {"DATE", "TIME", "DATETIME"}
  THEN TimeToInternal(value, getFieldMetadata(field).LogicalType)
  ELSE IF getFieldMetadata(field).LogicalType = "BOOLEAN"
  THEN IF value.t \in {"int", "int64"}
       THEN Converted(GoString(FormatBoolToInternal(Sprintf_d(value.v))))
       ELSE IF value.t = "string"
       THEN Converted(GoString(FormatBoolToInternal(value.s)))
       ELSE ScriptError
  ELSE Converted(value)

\* The storage engine's INTEGER column affinity: what a bound parameter is
\* stored as.  Integers, integral reals and numeric text become integers
\* (the model binds no other text).
Affinity(value) ==
  CASE value.t \in {"int", "int64", "float64"} -> value.v
    [] value.t = "string" /\ IsDigits(value.s) -> Atoi(value.s)
    [] OTHER -> 0

\* The TEXT column affinity: a bound string is stored as it is.
TextAffinity(value) ==
  CASE value.t = "string" -> value.s
    [] value.t \in {"int", "int64"} -> Sprintf_d(value.v)
    [] OTHER -> <<>>

\* getRecordById: the row as fetched from storage, every INTEGER column an
\* int64 and the TEXT column a string; nil when no row has that id.
getRecordById(s, id) ==
  IF id \in DOMAIN s.store
  THEN [id |-> GoInt64(id), n |-> GoInt64(s.store[id].n),
        b |-> GoInt64(s.store[id].b), t |-> GoString(s.store[id].t)]
  ELSE GoNil

\* ------------------------------------------------------- helper operators
\* What an operation hands back: the state it leaves, what it returned
\* ("true", "false", or "panic" for a raised script error or a Go runtime
\* fault), the new id of an insert, and which of Insert / Update it ran.
Result(s, res, id) ==
  [s |-> s, res |-> IF s.raised THEN "panic" ELSE res, id |-> id,
   did |-> "none", rejected |-> FALSE]

\* The storage engine rejected the INSERT, UPDATE or DELETE the operation
\* issued.
Rejected(r) == [r EXCEPT !.rejected = TRUE]
Did(what, r) == [r EXCEPT !.did = what]

\* A Go map with no entry (also a nil map: indexing it yields nothing).
EmptyRecord == [c \in {} |-> GoNil]

ReplaceAt(seq, i, r) == [seq EXCEPT ![i + 1] = r]
RemoveAt(seq, i) == SubSeq(seq, 1, i) \o SubSeq(seq, i + 2, Len(seq))

ClearErrors(s) == [s EXCEPT !.lastErrorText = ""]
SetLastErrorText(s) == [s EXCEPT !.lastErrorText = "db"]

\* A script error (ThrowError ... doPanic) or a Go runtime panic unwinds
\* every hook body being executed; the deferred SetAfterUpdateRunning(false)
\* of an after-update dispatch on the way runs.
Unwind(s) ==
  [s EXCEPT !.stack = <<>>,
            !.afterUpdateRunning =
               IF \E i \in 1..Len(s.stack) : s.stack[i].kind = "update"
               THEN FALSE ELSE s.afterUpdateRunning]

Panic(s) == Result(Unwind(s), "panic", 0)

\* ThrowError(..., ErrorTypeScript, true) in a function whose caller goes on
\* to return a value: the error unwinds through the caller.
Raise(s) == [Unwind(s) EXCEPT !.raised = TRUE]

\* A hook body being executed: which hook, what its dispatcher still has to
\* do, how many Table calls the body has made, and the row of the one-row
\* cursor the after-update and after-delete hooks are handed (the Record
\* that XRecord referred to when the hook was dispatched), and the Table
\* whose hook it is.
Frame(kind, xrec, tbl) ==
  [kind |-> kind, cont |-> "none", n |-> 0, xrec |-> xrec, tbl |-> tbl]

\* What a Table holds of its own (the rest is the storage table and the
\* process-wide state): the fields of the Table struct.
OwnFields(s) ==
  [loaded |-> s.loaded, rows |-> s.rows, pos |-> s.pos, XRecord |-> s.XRecord,
   hooks |-> s.hooks, filteredFields |-> s.filteredFields,
   rangeFilter |-> s.rangeFilter, filterByField |-> s.filterByField,
   orderBy |-> s.orderBy]

\* The same process seen from the second Table: a method called on it reads
\* and writes its fields where one called on the first reads and writes the
\* first's.
SwapTables(s) ==
  [s EXCEPT !.loaded = s.other.loaded, !.rows = s.other.rows,
            !.pos = s.other.pos, !.XRecord = s.other.XRecord,
            !.hooks = s.other.hooks,
            !.filteredFields = s.other.filteredFields,
            !.rangeFilter = s.other.rangeFilter,
            !.filterByField = s.other.filterByField,
            !.orderBy = s.other.orderBy,
            !.other = OwnFields(s),
            !.self = IF s.self = "first" THEN "second" ELSE "first"]

PushCurrentRow(s, kind) ==
  [s EXCEPT !.stack =
     Append(s.stack,
            Frame(kind,
                  IF s.pos >= 0 /\ s.pos < Len(s.rows)
                  THEN s.rows[s.pos + 1] ELSE GoNil,
                  s.self))]

Push(s, kind) ==
  [s EXCEPT !.stack =
     Append(s.stack,
            Frame(kind, IF kind = "insert" THEN GoNil ELSE s.XRecord, s.self))]

\* ---------------------------------------------------------------- filters
SetFilter(s, field, filter) ==
  [s EXCEPT !.rangeFilter = <<>>,
            !.filteredFields =
               [k \in DOMAIN s.filteredFields \cup {field} |->
                  IF k = field THEN filter ELSE s.filteredFields[k]]]

SetRangeFilter(s, field, min, max) ==
  [s EXCEPT !.rangeFilter = <<min, max>>, !.filterByField = field]

OrderBy(s, order) == [s EXCEPT !.orderBy = order]

\* t.plainFilter: "" from OpenTable on; nothing assigns it anything else.
plainFilter == <<>>

\* regexp (\&|\|): the pieces between the delimiters, and the delimiters.
IsDelim(c) == c = "&" \/ c = "|"

Split(filter) ==
  LET RECURSIVE sp(_, _, _)
      sp(i, cur, acc) ==
        IF i > Len(filter) THEN Append(acc, cur)
        ELSE IF IsDelim(filter[i]) THEN sp(i + 1, <<>>, Append(acc, cur))
        ELSE sp(i + 1, Append(cur, filter[i]), acc)
  IN sp(1, <<>>, <<>>)

FindAllDelims(filter) == SelectSeq(filter, IsDelim)

\* The comparison prefixes in the order the switch tries them, and the
\* operator each one writes.
Prefixes ==
  << <<"=", "=">>, <<"~", "=">>, <<">">>, <<"<">>, <<">", "=">>, <<"<", "=">> >>
PrefixOperator == <<"=", "<>", ">", "<", ">=", "<=">>

\* The first case of the switch that matches the clause, 0 when none does.
MatchedPrefix(v) ==
  IF \E i \in DOMAIN Prefixes : HasPrefix(v, Prefixes[i])
  THEN CHOOSE i \in DOMAIN Prefixes :
         /\ HasPrefix(v, Prefixes[i])
         /\ \A j \in 1..(i - 1) : ~HasPrefix(v, Prefixes[j])
  ELSE 0

Quoted(str) == <<"'">> \o str \o <<"'">>

ClauseValueKeepingPrefix(v, p) == v

\* The clause once its prefix p is cut off and the rest trimmed.
ClauseValue(v, p) ==
  IF p = 0 THEN v ELSE TrimSpace(TrimPrefix(v, Prefixes[p]))

\* The operator a clause writes: its prefix's, else LIKE for a text value
\* with a wildcard, else =.
ClauseOperator(p, v, fType) ==
  IF p # 0 THEN PrefixOperator[p]
  ELSE IF fType = "TEXT" /\ (Contains(v, "%") \/ Contains(v, "_")) THEN "LIKE"
  ELSE "="

\* The operand of a Date, Time or DateTime clause: the value converted to
\* the canonical form, the value as written when the conversion fails.
TimeOperand(v, d) == IF d[2] THEN Quoted(d[1]) ELSE Quoted(v)

\* The operand text a clause writes after the operator, under the display
\* templates fm.
ClauseOperand(fm, v, fType) ==
  CASE fType \in TimeTypes ->
         TimeOperand(v, FormatDateTime(fm, v, fType, ToInternalFormat))
    [] fType = "BOOLEAN" -> Quoted(FormatBoolToInternal(v))
    [] fType \in {"INTEGER", "REAL"} -> v
    [] fType = "TEXT" -> Quoted(Trim(v, "'"))
    [] OTHER -> Quoted(v)

Comparison(field, op, operand) ==
  [k |-> "cmp", f |-> field, op |-> op, v |-> operand]

Connective(c) == [k |-> "conn", f |-> "", op |-> c, v |-> <<>>]

CompileValue(fm, field, p, v, fType) ==
  Comparison(field, ClauseOperator(p, v, fType), ClauseOperand(fm, v, fType))

CompilePrefixed(fm, field, v, p, fType) ==
  CompileValue(fm, field, p, ClauseValue(v, p), fType)

\* What one non-empty clause adds to the fragment.
CompileClause(fm, field, v, fType) ==
  CompilePrefixed(fm, field, v, MatchedPrefix(v), fType)

\* The delimiter written after clause i, if the expression has one there.
DelimAfter(delim, i) ==
  IF Len(delim) > 0 /\ i - 1 < Len(delim)
  THEN <<Connective(IF delim[i] = "&" THEN "AND" ELSE "OR")>>
  ELSE <<>>

\* The loop of parseFilterByType over the pieces sp with delimiters delim.
CompilePieces(fm, field, sp, delim, fType) ==
  LET RECURSIVE loop(_, _)
      loop(i, result) ==
        IF i > Len(sp) THEN result
        ELSE IF Len(TrimSpace(sp[i])) > 0
        THEN loop(i + 1,
                  result \o <<CompileClause(fm, field, TrimSpace(sp[i]),
                                                  fType)>>
                         \o DelimAfter(delim, i))
        ELSE loop(i + 1, result)
  IN loop(1, <<>>)

\* parseFilterByType under the display templates fm: the fragment as the
\* sequence of comparisons and connectives it is written from, <<>> for "".
\* The filter '' on a Date, Time, DateTime or Text field is written as
\* field = '' before anything else is looked at; a Date, Time or DateTime
\* field whose template gives an empty pattern compiles to "".  A delimiter
\* is written after a non-empty clause that has one behind it, whatever
\* follows.
EmptyLiteral == <<"'", "'">>
FilterTypes == TimeTypes \cup {"BOOLEAN", "INTEGER", "REAL", "TEXT"}
parseFilterByType(fm, field, filter, fType) ==
  IF fType \notin FilterTypes THEN <<>>
  ELSE IF fType \in TimeTypes \cup {"TEXT"} /\ filter = EmptyLiteral
  THEN <<Comparison(field, "=", EmptyLiteral)>>
  ELSE IF fType \in TimeTypes /\ TemplateToRegexp(fm[fType]) = <<>> THEN <<>>
  ELSE CompilePieces(fm, field, Split(filter),
                     IF Len(Split(filter)) > 1 THEN FindAllDelims(filter)
                     ELSE <<>>,
                     fType)

parseFilter(fm, field, filter) ==
  IF GetFieldType(field) = "" THEN <<>>
  ELSE parseFilterByType(fm, field, filter, GetFieldType(field))

\* The predicate Find starts the WHERE clause with.
FirstPredicate(s) ==
  IF Len(plainFilter) > 0
  THEN <<[k |-> "plain", f |-> "", op |-> "", v |-> plainFilter]>>
  ELSE IF Len(s.rangeFilter) = 2
  THEN <<[k |-> "between", f |-> s.filterByField, op |-> "", v |-> <<>>]>>
  ELSE <<>>

\* query += " AND " (or " WHERE ") + f, for a fragment f that is not "".
AddFragment(query, f) ==
  IF f = <<>> THEN query
  ELSE query \o (IF query = <<>> THEN <<>> ELSE <<Connective("AND")>>) \o f

\* The WHERE clause Find writes: the range predicate, then every non-empty
\* filter that compiles to something, each behind " AND " once a predicate
\* is there.  keys is the order in which Go iterates the filteredFields map.
WhereClause(s, keys) ==
  LET RECURSIVE loop(_, _)
      loop(i, query) ==
        IF i > Len(keys) THEN query
        ELSE loop(i + 1,
                  AddFragment(query,
                              IF Len(s.filteredFields[keys[i]]) = 0 THEN <<>>
                              ELSE parseFilter(s.formats, keys[i],
                                               s.filteredFields[keys[i]])))
  IN loop(1, FirstPredicate(s))

\* ------------------------------------------------------- the storage engine
\* How the engine reads an operand: an integer literal, a quoted text
\* literal, or neither (a syntax error, or a name that is no column).
IsQuoted(v) == Len(v) >= 2 /\ v[1] = "'" /\ v[Len(v)] = "'"
IsLiteral(v) == IsDigits(v) \/ IsQuoted(v)

IsPredicate(tok) == tok.k \in {"cmp", "between"}

\* The statement parses: predicates and connectives alternate, a predicate
\* first and last, every operand a literal, the range column a column.
WellFormed(where) ==
  /\ \A i \in DOMAIN where :
       /\ (i % 2 = 1) = IsPredicate(where[i])
       /\ where[i].k = "cmp" => IsLiteral(where[i].v)
       /\ where[i].k = "between" => where[i].f \in Columns
       /\ where[i].k # "plain"
  /\ (where # <<>> => IsPredicate(where[Len(where)]))

\* The text a literal stands for.
Unquote(v) == IF IsQuoted(v) THEN SubSeq(v, 2, Len(v) - 1) ELSE v

CompareNumber(x, op, y) ==
  CASE op = "=" -> x = y
    [] op = "<>" -> x # y
    [] op = ">" -> x > y
    [] op = "<" -> x < y
    [] op = ">=" -> x >= y
    [] op = "<=" -> x <= y
    [] OTHER -> FALSE

\* A column of INTEGER affinity against a literal: numeric text is compared
\* as the number, any other text sorts after every number.
Compare(x, op, v) ==
  IF IsDigits(Unquote(v)) THEN CompareNumber(x, op, Atoi(Unquote(v)))
  ELSE op \in {"<", "<=", "<>"}

\* The characters of the model's text values in code point order.
CharOrder ==
  <<" ", "%", "&", "'", "-", ".", "/",
    "0", "1", "2", "3", "4", "5", "6", "7", "8", "9", ":", "<", "=", ">",
    "_", "a", "d", "e", "f", "h", "i", "l", "m", "r", "s", "t", "u", "x",
    "y", "|", "~">>
Rank(c) == CHOOSE i \in DOMAIN CharOrder : CharOrder[i] = c

\* Two texts byte by byte: the first difference decides, a proper prefix
\* comes first.
TextLess(a, b) ==
  \E i \in 1..Len(b) :
    /\ i - 1 <= Len(a)
    /\ SubSeq(a, 1, i - 1) = SubSeq(b, 1, i - 1)
    /\ (i > Len(a) \/ Rank(a[i]) < Rank(b[i]))

\* A column of TEXT affinity against a literal: the literal is taken as
\* text and the two are compared byte by byte.
CompareText(x, op, v) ==
  CASE op = "=" -> x = Unquote(v)
    [] op = "<>" -> x # Unquote(v)
    [] op = ">" -> TextLess(Unquote(v), x)
    [] op = "<" -> TextLess(x, Unquote(v))
    [] op = ">=" -> ~TextLess(x, Unquote(v))
    [] op = "<=" -> ~TextLess(Unquote(v), x)
    [] OTHER -> FALSE

Column(s, id, f) == IF f = "id" THEN id ELSE s.store[id][f]

\* A second storage table, dates(d Date), holding three rows, for a Table
\* whose only filter is on d.
DatesMetadata == [d |-> [ActualType |-> "TEXT", LogicalType |-> "DATE"]]
DatesStore ==
  <<[d |-> <<"2", "0", "2", "3", "1", "2", "3", "1">>],
    [d |-> <<"2", "0", "2", "4", "0", "6", "1", "5">>],
    [d |-> <<"2", "0", "2", "5", "0", "1", "0", "1">>]>>

IsTextColumn(f) ==
  \/ f \in DOMAIN TableMetadata /\ TableMetadata[f].ActualType = "TEXT"
  \/ f \in DOMAIN DatesMetadata /\ DatesMetadata[f].ActualType = "TEXT"

Holds(s, id, tok) ==
  IF tok.k = "between"
  THEN /\ Column(s, id, tok.f) >= s.rangeFilter[1]
       /\ Column(s, id, tok.f) <= s.rangeFilter[2]
  ELSE IF IsTextColumn(tok.f)
  THEN CompareText(Column(s, id, tok.f), tok.op, tok.v)
  ELSE Compare(Column(s, id, tok.f), tok.op, tok.v)

\* No OR stands between positions i and j of the clause.
SameConjunction(where, i, j) ==
  \A m \in DOMAIN where :
    ((m > i /\ m < j) \/ (m > j /\ m < i)) => where[m].op # "OR"

\* AND binds tighter than OR: the row is selected when, in one of the
\* stretches between two ORs, every predicate holds.
Selects(s, id, where) ==
  \/ where = <<>>
  \/ \E i \in DOMAIN where :
       /\ IsPredicate(where[i])
       /\ \A j \in DOMAIN where :
            (IsPredicate(where[j]) /\ SameConjunction(where, i, j))
               => Holds(s, id, where[j])

IdsAscending(S) ==
  LET RECURSIVE asc(_)
      asc(T) == IF T = {} THEN <<>>
                ELSE <<CHOOSE x \in T : \A y \in T : x <= y>>
                     \o asc(T \ {CHOOSE x \in T : \A y \in T : x <= y})
  IN asc(S)

Reverse(seq) == [i \in DOMAIN seq |-> seq[Len(seq) + 1 - i]]

\* The order clauses the model uses: none (rows come in primary-key order)
\* and "id DESC".
Ordered(ids, order) == IF order = "id DESC" THEN Reverse(ids) ELSE ids

Fetch(s, ids) == [i \in DOMAIN ids |-> getRecordById(s, ids[i])]

\* The rows the query selects, in the order it returns them.
Query(s, where) ==
  Fetch(s, Ordered(IdsAscending({id \in DOMAIN s.store : Selects(s, id, where)}),
                   s.orderBy))

\* Find of the Table over dates with the filter on d: the ids of the rows
\* of the new Rowset; a statement that does not parse yields none.
SelectedIds(s, where) ==
  IF ~WellFormed(where) THEN {}
  ELSE {id \in DOMAIN s.store : Selects(s, id, where)}
FindDates(fm, filter) ==
  SelectedIds([store |-> DatesStore, rangeFilter |-> <<>>],
              IF Len(filter) = 0 THEN <<>>
              ELSE parseFilterByType(fm, "d", filter,
                                     DatesMetadata["d"].LogicalType))

\* ------------------------------------------------------------------- Find
\* t.Rows = &Rowset{Rows: results, Pos: 0}; return len(t.Rows.Rows) > 0
FindResultsKeepingPos(s, results) ==
  Result([s EXCEPT !.loaded = TRUE, !.rows = results],
         IF Len(results) > 0 THEN "true" ELSE "false", 0)

FindResults(s, results) ==
  Result([s EXCEPT !.loaded = TRUE, !.rows = results, !.pos = 0],
         IF Len(results) > 0 THEN "true" ELSE "false", 0)

\* Run the query: an execution error records the error and returns false
\* with the Rowset as it was.
FindQuery(s, where, env) ==
  IF env.fail \/ ~WellFormed(where)
  THEN Result(SetLastErrorText(s), "false", 0)
  ELSE FindResults(s, Query(s, where))

\* Find: ClearErrors, build the query from the filter state, run it.
Find(s, env) == FindQuery(ClearErrors(s), WhereClause(s, env.keys), env)

\* --------------------------------------------------------------- FindByID
\* The index of the first Rowset row whose id == the argument (Go interface
\* equality: same dynamic type and same value), -1 when there is none.
MatchIndex(rws, id) ==
  IF \E i \in 1..Len(rws) : rws[i].id = id
  THEN (CHOOSE i \in 1..Len(rws) :
          /\ rws[i].id = id
          /\ \A j \in 1..(i - 1) : rws[j].id # id) - 1
  ELSE -1

\* FindByID once the row is fetched: a Table with no Rowset gets a one-row
\* Rowset; else the first row with that id is replaced and Pos put on it;
\* when no row matches, the Rowset is replaced by the one row.
FindByIDFetched(s, id, result) ==
  IF ~s.loaded
  THEN Result([s EXCEPT !.loaded = TRUE, !.rows = <<result>>, !.pos = 0],
              "true", 0)
  ELSE IF MatchIndex(s.rows, id) >= 0
  THEN Result([s EXCEPT !.rows = ReplaceAt(s.rows, MatchIndex(s.rows, id), result),
                        !.pos = MatchIndex(s.rows, id)],
              "true", 0)
  ELSE Result([s EXCEPT !.rows = <<result>>, !.pos = 0], "true", 0)

FindByID(s, id, env) ==
  IF env.fail \/ getRecordById(s, id.v) = GoNil
  THEN Result(s, "false", 0)
  ELSE FindByIDFetched(s, id, getRecordById(s, id.v))

\* ----------------------------------------------------------------- hooks
\* The after-insert dispatch held back by the after-update flag.
runOnAfterInsertGuarded(s) ==
  IF s.afterUpdateRunning THEN s ELSE Push(s, "insert")

\* The after-update dispatch setting the flag on entry and clearing it once
\* the call has returned.
runOnAfterUpdateFlagFirst(s) ==
  IF s.afterUpdateRunning THEN s
  ELSE IF ~s.isFunction.update
  THEN Raise([s EXCEPT !.afterUpdateRunning = TRUE])
  ELSE Push([s EXCEPT !.afterUpdateRunning = TRUE], "update")

\* runOnAfterInsert: a script error when the hook name is no Lua function;
\* else the hook body starts (the Table itself is passed).
runOnAfterInsert(s) ==
  IF ~s.isFunction.insert THEN Raise(s) ELSE Push(s, "insert")

\* runOnAfterUpdate: nothing when a dispatch is already running anywhere in
\* the process; otherwise a script error when the hook name is no Lua
\* function (the deferred SetAfterUpdateRunning(false) runs on the way out),
\* else the flag is set and the hook body starts.
runOnAfterUpdateUnguarded(s) ==
  Push([s EXCEPT !.afterUpdateRunning = TRUE], "update")

runOnAfterUpdatePerTable(s) ==
  IF \E i \in 1..Len(s.stack) :
       s.stack[i].kind = "update" /\ s.stack[i].tbl = s.self
  THEN s
  ELSE Push([s EXCEPT !.afterUpdateRunning = TRUE], "update")

runOnAfterUpdate(s) ==
  IF s.afterUpdateRunning THEN s
  ELSE IF ~s.isFunction.update
  THEN Raise([s EXCEPT !.afterUpdateRunning = FALSE])
  ELSE Push([s EXCEPT !.afterUpdateRunning = TRUE], "update")

\* runOnAfterDelete: a script error when the hook name is no Lua function;
\* else the hook body starts on a one-row cursor over XRecord.
runOnAfterDelete(s) ==
  IF ~s.isFunction.delete THEN Raise(s) ELSE Push(s, "delete")

\* ----------------------------------------------------------------- Insert
\* The values Insert binds: for every column with a cached default except
\* the primary key, the supplied value converted to internal form, else the
\* default.  ok is false when a conversion fails.
InsertValuesDefaultsOnly(fields) ==
  [k \in DataColumns |-> Converted(defaultFieldValues[k])]

InsertValues(fields) ==
  [k \in DataColumns |->
     IF k \in DOMAIN fields
     THEN fieldUserFormatToInternalFormat(k, fields[k])
     ELSE Converted(defaultFieldValues[k])]

\* The INSERT: a new storage row under the next primary key.
StoreInsert(s, vals) ==
  [s EXCEPT !.store = [i \in DOMAIN s.store \cup {s.nextId} |->
                         IF i = s.nextId
                         THEN [n |-> Affinity(vals["n"][1]),
                               b |-> Affinity(vals["b"][1]),
                               t |-> TextAffinity(vals["t"][1])]
                         ELSE s.store[i]],
            !.nextId = s.nextId + 1]

\* Where Insert puts the fetched row r: over a pending placeholder (last row
\* with id == int 0), leaving Pos alone, else appended with Pos on it.
InsertIntoRowset(s, r) ==
  IF Len(s.rows) > 0 /\ s.rows[Len(s.rows)].id = GoInt(0)
  THEN [s EXCEPT !.rows = ReplaceAt(s.rows, Len(s.rows) - 1, r)]
  ELSE [s EXCEPT !.rows = Append(s.rows, r), !.pos = Len(s.rows)]

\* *id = lastID.ID; the after-insert hook when one is set; return true.
InsertDone(s, id) ==
  Result(IF s.hooks.insert THEN runOnAfterInsert(s) ELSE s, "true", id)

\* After the INSERT: fetch the row by its id and put it in the Rowset (a
\* Table with no Rowset faults here, the row already stored).
InsertFetch(s, id) ==
  IF ~s.loaded THEN Panic(s)
  ELSE InsertDone(InsertIntoRowset(s, getRecordById(s, id)), id)

\* The ways the conversions of the supplied fields fail.
ConversionFailures(fields) ==
  {fieldUserFormatToInternalFormat(k, fields[k])[3] : k \in DOMAIN fields}
    \ {""}

\* How the conversions of one call end: "" when none fails, else the
\* failure of the first failing field the map iteration meets (env.first
\* when failures of both kinds are present).
FailureOf(hows, env) ==
  IF hows = {} THEN ""
  ELSE IF hows = {"script", "data"} THEN env.first
  ELSE CHOOSE h \in hows : TRUE

InsertFailure(vals, env) ==
  FailureOf({vals[k][3] : k \in {c \in DataColumns : ~vals[c][2]}}, env)

\* A conversion that fails as a script error aborts; one that fails as a
\* data error returns false; a rejected statement records the error and
\* returns false.
InsertExecMovingCursor(s, vals, env) ==
  IF InsertFailure(vals, env) = "script"
  THEN Panic([s EXCEPT !.pos = Len(s.rows)])
  ELSE IF InsertFailure(vals, env) = "data"
  THEN Result([s EXCEPT !.pos = Len(s.rows)], "false", 0)
  ELSE IF env.fail
  THEN Rejected(Result(SetLastErrorText([s EXCEPT !.pos = Len(s.rows)]),
                       "false", 0))
  ELSE InsertFetch(StoreInsert(s, vals), s.nextId)

InsertExec(s, vals, env) ==
  IF InsertFailure(vals, env) = "script" THEN Panic(s)
  ELSE IF InsertFailure(vals, env) = "data" THEN Result(s, "false", 0)
  ELSE IF env.fail THEN Rejected(Result(SetLastErrorText(s), "false", 0))
  ELSE InsertFetch(StoreInsert(s, vals), s.nextId)

Insert(s, fields, env) ==
  Did("Insert", InsertExec(ClearErrors(s), InsertValues(fields), env))

\* ----------------------------------------------------------------- Update
\* The stored row after UPDATE ... SET the supplied data columns.
UpdatedRow(old, fields) ==
  [n |-> IF "n" \in DOMAIN fields
         THEN Affinity(fieldUserFormatToInternalFormat("n", fields["n"])[1])
         ELSE old.n,
   b |-> IF "b" \in DOMAIN fields
         THEN Affinity(fieldUserFormatToInternalFormat("b", fields["b"])[1])
         ELSE old.b,
   t |-> IF "t" \in DOMAIN fields
         THEN TextAffinity(fieldUserFormatToInternalFormat("t", fields["t"])[1])
         ELSE old.t]

\* The UPDATE: no row with that id is no error.
StoreUpdate(s, id, fields) ==
  IF id \in DOMAIN s.store
  THEN [s EXCEPT !.store[id] = UpdatedRow(@, fields)]
  ELSE s

\* t.Rows.Rows[t.Rows.Pos] = r; the after-update hook when one is set.
UpdatePut(s, r) == [s EXCEPT !.rows = ReplaceAt(s.rows, s.pos, r)]

UpdateDone(s, id) ==
  Result(IF s.hooks.update THEN runOnAfterUpdate(s) ELSE s, "true", id)

\* After the UPDATE: re-fetch the row (none: getRecordById records the
\* error, false) and put it at the cursor (no row there: an index fault).
UpdateFetch(s, id) ==
  IF getRecordById(s, id) = GoNil THEN Result(SetLastErrorText(s), "false", 0)
  ELSE IF ~s.loaded \/ s.pos < 0 \/ s.pos >= Len(s.rows) THEN Panic(s)
  ELSE UpdateDone(UpdatePut(s, getRecordById(s, id)), id)

UpdateFailure(fields, env) == FailureOf(ConversionFailures(fields), env)

\* Convert the supplied values (a script-error failure aborts, a data-error
\* failure returns false) and execute; a rejected statement clears XRecord
\* and then reads t.db.Error, which is nil: a nil dereference.
UpdateExec(s, id, fields, env) ==
  IF UpdateFailure(fields, env) = "script" THEN Panic(s)
  ELSE IF UpdateFailure(fields, env) = "data" THEN Result(s, "false", 0)
  ELSE IF env.fail THEN Rejected(Panic([s EXCEPT !.XRecord = GoNil]))
  ELSE UpdateFetch(StoreUpdate(s, id, fields), id)

\* With an after-update hook set, the pre-update row is fetched into XRecord
\* first; none there: getRecordById records the error, false.
UpdateSnapshot(s, id, fields, env) ==
  IF ~s.hooks.update THEN UpdateExec(s, id, fields, env)
  ELSE IF getRecordById(s, id) = GoNil
  THEN Result(SetLastErrorText([s EXCEPT !.XRecord = GoNil]), "false", 0)
  ELSE UpdateExec([s EXCEPT !.XRecord = getRecordById(s, id)], id, fields, env)

Update(s, id, fields, env) ==
  Did("Update",
      IF id < 1 THEN Result(ClearErrors(s), "false", 0)
      ELSE UpdateSnapshot(ClearErrors(s), id, fields, env))

\* ----------------------------------------------------------------- delete
StoreDelete(s, id) ==
  [s EXCEPT !.store = [i \in DOMAIN s.store \ {id} |-> s.store[i]]]

\* The DELETE (a rejected statement faults like Update's), then the hook.
deleteExec(s, id, env) ==
  IF env.fail THEN Rejected(Panic([s EXCEPT !.XRecord = GoNil]))
  ELSE Result(IF s.hooks.delete THEN runOnAfterDelete(StoreDelete(s, id))
              ELSE StoreDelete(s, id),
              "true", 0)

\* delete(id) taking the snapshot once the DELETE has run.
deleteSnapshotAfter(s, id, env) ==
  deleteExec([ClearErrors(s) EXCEPT
                !.XRecord = getRecordById(StoreDelete(s, id.v), id.v)],
             id.v, env)

\* delete(id): snapshot for the hook (no row of that id: getRecordById
\* records the error and the snapshot is nil), DELETE, then the hook.
delete(s, id, env) ==
  deleteExec(IF ~s.hooks.delete THEN ClearErrors(s)
             ELSE IF getRecordById(s, id.v) = GoNil
             THEN SetLastErrorText([s EXCEPT !.XRecord = GoNil])
             ELSE [ClearErrors(s) EXCEPT !.XRecord = getRecordById(s, id.v)],
             id.v, env)

\* -------------------------------------------------------------- DeleteRow
\* What DeleteRow does to the Rowset once delete returned true.
DeleteRowAdjustNoClamp(s) ==
  IF Len(s.rows) = 1
  THEN [s EXCEPT !.rows = <<>>, !.pos = 0]
  ELSE [s EXCEPT !.rows = RemoveAt(s.rows, s.pos), !.pos = s.pos - 1]

DeleteRowAdjust(s) ==
  IF Len(s.rows) = 1
  THEN [s EXCEPT !.rows = <<>>, !.pos = 0]
  ELSE [s EXCEPT !.rows = RemoveAt(s.rows, s.pos),
                 !.pos = IF s.pos - 1 < 0 THEN 0 ELSE s.pos - 1]

\* With an after-delete hook the adjustment waits until the hook body has
\* returned.
DeleteRowDeleted(s, d) ==
  IF d.res # "true" THEN d
  ELSE IF Len(d.s.stack) > Len(s.stack)
  THEN Result([d.s EXCEPT !.stack[Len(d.s.stack)].cont = "DeleteRow"], "true", 0)
  ELSE Result(DeleteRowAdjust(d.s), "true", 0)

\* DeleteRow: false with no current row; else delete the cursor row's id and,
\* when delete returned true, adjust the Rowset.
DeleteRow(s, env) ==
  IF ~s.loaded \/ s.pos < 0 \/ s.pos >= Len(s.rows)
  THEN Result(s, "false", 0)
  ELSE DeleteRowDeleted(s, delete(s, s.rows[s.pos + 1].id, env))

\* ------------------------------------------------------------------- Init
PlaceholderRow == [c \in Columns |-> defaultFieldValues[c]]

AppendPlaceholder(s) ==
  [s EXCEPT !.rows = Append(s.rows, PlaceholderRow), !.pos = Len(s.rows)]

\* Init of an unloaded Table once its Find returned.
InitFound(f) ==
  IF f.res # "true"
  THEN [f.s EXCEPT !.loaded = TRUE, !.rows = <<PlaceholderRow>>, !.pos = 0]
  ELSE AppendPlaceholder(f.s)

\* Init: append the new-row placeholder (every column its cached default)
\* and put the cursor on it; an unloaded Table runs Find first.
TableInit(s, env) ==
  IF ~s.loaded THEN InitFound(Find(s, env)) ELSE AppendPlaceholder(s)

\* --------------------------------------------------------------- GetField
\* boolfunc.FormatBool(inp, ToUserFormat)
FormatBoolToUser(inp) ==
  IF inp = <<"1">> THEN <<"t", "r", "u", "e">> ELSE <<"f", "a", "l", "s", "e">>

GetDefaultValueForTheField(field) ==
  IF field \in DOMAIN defaultFieldValues THEN defaultFieldValues[field]
  ELSE GoNil

\* A formatting error is shown as a data error and nil is returned.
TimeToUser(formatted) ==
  IF formatted[2] THEN GoString(formatted[1]) ELSE GoNil

\* GetField on the row under the cursor: a non-empty string of a Date, Time
\* or DateTime field is formatted for display, one of a Boolean field
\* becomes "true" or "false"; a nil of a Text, Integer or Real field gives
\* the default; any other value is returned as it is held.  A field the row
\* does not hold gives nil.
GetFieldOfRow(row, field, tp) ==
  IF row = GoNil \/ field \notin DOMAIN row THEN GoNil
  ELSE IF tp \in TimeTypes /\ row[field].t = "string" /\ row[field].s # <<>>
  THEN TimeToUser(FormatDateTime(StartFormats, row[field].s, tp, ToUserFormat))
  ELSE IF tp = "BOOLEAN" /\ row[field].t = "string" /\ row[field].s # <<>>
  THEN GoString(FormatBoolToUser(row[field].s))
  ELSE IF tp \in {"TEXT", "INTEGER", "REAL"} /\ row[field] = GoNil
  THEN GetDefaultValueForTheField(field)
  ELSE row[field]

\* GetField(field, ""): nil on a Table without Rowset, the default of the
\* field when the Rowset is empty or the cursor is off it.
GetField(s, field) ==
  IF ~s.loaded THEN GoNil
  ELSE IF Len(s.rows) = 0 \/ s.pos < 0 \/ s.pos >= Len(s.rows)
  THEN GetDefaultValueForTheField(field)
  ELSE GetFieldOfRow(s.rows[s.pos + 1], field, GetFieldType(field))

\* --------------------------------------------------------------- SetField
SetFieldAt(s, field, value) ==
  IF s.pos < 0 THEN Panic(s)
  ELSE Result([s EXCEPT !.rows[s.pos + 1][field] = value], "true", 0)

SetField(s, field, value, env) ==
  SetFieldAt(IF ~s.loaded \/ Len(s.rows) = 0 \/ s.pos >= Len(s.rows)
             THEN TableInit(s, env) ELSE s,
             field, value)

\* -------------------------------------------------------------- SaveField
\* The condition on which SaveField inserts: the cursor past the end, or the
\* Rowset exactly one placeholder.
SaveFieldInserts(s) ==
  s.pos >= Len(s.rows) \/ (Len(s.rows) = 1 /\ s.rows[1].id = GoInt(0))

\* A false from Update is turned into a script error.
SaveFieldUpdated(u) ==
  IF u.res = "false" THEN Did("Update", Panic(u.s)) ELSE u

\* The update path: the value is put in the cursor row and Update runs by
\* that row's id, which must be an int64 (the type assertion faults on the
\* placeholder's int 0).
SaveFieldUpdate(s, field, value, env) ==
  IF s.pos < 0 THEN Panic(s)
  ELSE IF s.rows[s.pos + 1].id.t # "int64"
  THEN Panic([s EXCEPT !.rows[s.pos + 1][field] = value])
  ELSE SaveFieldUpdated(Update([s EXCEPT !.rows[s.pos + 1][field] = value],
                               s.rows[s.pos + 1].id.v,
                               [f \in {field} |-> value], env))

\* SaveField: false on no or an empty Rowset; else a single-field Insert or
\* a single-field Update.
SaveField(s, field, value, env) ==
  IF ~s.loaded \/ Len(s.rows) = 0 THEN Result(s, "false", 0)
  ELSE IF SaveFieldInserts(s) THEN Insert(s, [f \in {field} |-> value], env)
  ELSE SaveFieldUpdate(s, field, value, env)

\* ----------------------------------------------------------------- AddRow
\* Every column's default, the given field replaced by the value.
AddRowFields(field, value) ==
  [c \in Columns |->
     IF c = field /\ value # GoNil THEN value ELSE defaultFieldValues[c]]

AddRowFound(f, id) == [f EXCEPT !.did = "Insert", !.id = id]

\* After AddRow's Insert: false if it failed, else Find.  With an
\* after-insert hook the Find waits for the hook body.
AddRowInserted(s, r, env2) ==
  IF r.res # "true" THEN r
  ELSE IF Len(r.s.stack) > Len(s.stack)
  THEN Did("Insert",
           Result([r.s EXCEPT !.stack[Len(r.s.stack)].cont = "AddRow"],
                  "true", r.id))
  ELSE AddRowFound(Find(r.s, env2), r.id)

AddRow(s, field, value, env, env2) ==
  AddRowInserted(s, Insert(s, AddRowFields(field, value), env), env2)

\* -------------------------------------------------------------- Next/Prev
NextWrapping(s) ==
  IF s.pos + 1 < Len(s.rows)
  THEN Result([s EXCEPT !.pos = s.pos + 1], "true", 0)
  ELSE Result([s EXCEPT !.pos = 0], "false", 0)

Next_(s) ==
  IF s.pos + 1 < Len(s.rows)
  THEN Result([s EXCEPT !.pos = s.pos + 1], "true", 0)
  ELSE Result(s, "false", 0)

Prev(s) ==
  IF s.pos - 1 >= 0
  THEN Result([s EXCEPT !.pos = s.pos - 1], "true", 0)
  ELSE Result(s, "false", 0)

ScrollToBeginning(s) == [s EXCEPT !.pos = 0]
ScrollToEnd(s) == [s EXCEPT !.pos = Len(s.rows) - 1]
ScrollToRow(s, row) == [s EXCEPT !.pos = row]

GetCurrentRecord(s) ==
  IF ~s.loaded \/ s.pos < 0 \/ s.pos >= Len(s.rows) THEN GoNil
  ELSE s.rows[s.pos + 1]

\* ------------------------------------------------- tables and metadata
\* The database as CreateTable, AlterTable and DropTable see it: tables maps
\* the name of each table of sqlite_master to its columns (name -> declared
\* type), temp does the same for the TEMP tables of the connection, meta is
\* the rows of table_metadata in id order (empty when that table is gone).  A structure string arrives here split into its clauses;
\* the length clause "l" only changes the declared width and is left out.
SysMetaTable == "table_metadata"
ModelTable == "t1"

\* The declared field types: the column type and the logical tag of each.
FieldTypes ==
  [Text |-> [ActualType |-> "TEXT", LogicalType |-> ""],
   Integer |-> [ActualType |-> "INTEGER", LogicalType |-> ""],
   Float |-> [ActualType |-> "REAL", LogicalType |-> ""],
   Boolean |-> [ActualType |-> "INTEGER", LogicalType |-> "BOOLEAN"],
   Date |-> [ActualType |-> "TEXT", LogicalType |-> "DATE"],
   Time |-> [ActualType |-> "TEXT", LogicalType |-> "TIME"],
   DateTime |-> [ActualType |-> "TEXT", LogicalType |-> "DATETIME"]]

\* The columns AutoMigrate gives table_metadata.
MetaColumns ==
  [id |-> "INTEGER", table_name |-> "TEXT", field_name |-> "TEXT",
   actual_type |-> "TEXT", logical_type |-> "TEXT", is_nullable |-> "NUMERIC",
   default_value |-> "TEXT", temporary |-> "NUMERIC"]

MetadataRow(name, fieldName, tp, temporary) ==
  [TableName |-> name, FieldName |-> fieldName,
   ActualType |-> tp.ActualType, LogicalType |-> tp.LogicalType,
   Temporary |-> temporary]

NoTables == [n \in {} |-> MetaColumns]

\* The database the model's Table is opened over: table_metadata and the
\* Table's own table with its metadata rows.
CreatedDB ==
  [tables |-> (SysMetaTable :> MetaColumns)
                @@ (ModelTable :> [id |-> "INTEGER", n |-> "INTEGER",
                                   b |-> "INTEGER", t |-> "TEXT"]),
   temp |-> NoTables,
   meta |-> <<MetadataRow(ModelTable, "n", TableMetadata["n"], FALSE),
              MetadataRow(ModelTable, "b", TableMetadata["b"], FALSE),
              MetadataRow(ModelTable, "t", TableMetadata["t"], FALSE)>>]

tableExists(d, name) == name \in DOMAIN d.tables

\* What a DDL call hands back: the database it leaves and "true", or
\* "panic" for a raised script error.
DDLResult(d, res) == [d |-> d, res |-> res]

HasName(f) == f.n # ""
KnownType(tp) == tp \in DOMAIN FieldTypes

\* The id column and one column for each named field.
CreatedColumns(named) ==
  [c \in {"id"} \cup {named[i].n : i \in DOMAIN named} |->
     IF c = "id" THEN "INTEGER"
     ELSE FieldTypes[named[CHOOSE i \in DOMAIN named : named[i].n = c].t].ActualType]

\* CREATE TABLE is refused for a column name given twice (or "id" again).
DistinctColumns(named) ==
  /\ \A i \in DOMAIN named : named[i].n # "id"
  /\ \A i, j \in DOMAIN named : named[i].n = named[j].n => i = j

\* The metadata CreateTable collects: an entry for every named field.
CreateMetadata(name, named, temporary) ==
  [i \in DOMAIN named |->
     MetadataRow(name, named[i].n, FieldTypes[named[i].t], temporary)]

\* db.Create(&metadata): one INSERT of all the rows, when there are any; a
\* failure is a script error, the table already created.
CreateStoreMetadata(d, name, named, temporary, env) ==
  IF Len(named) = 0 THEN DDLResult(d, "true")
  ELSE IF env.failAt = 2 \/ ~tableExists(d, SysMetaTable)
  THEN DDLResult(d, "panic")
  ELSE DDLResult([d EXCEPT !.meta =
                    @ \o CreateMetadata(name, named, temporary)], "true")

\* db.Exec(createTable): a failure is a script error.  CREATE TEMP TABLE IF
\* NOT EXISTS makes a table of the connection and does nothing when the
\* connection has one of that name.
CreateExec(d, name, named, temporary, env) ==
  IF env.failAt = 1 THEN DDLResult(d, "panic")
  ELSE IF temporary /\ name \in DOMAIN d.temp
  THEN CreateStoreMetadata(d, name, named, temporary, env)
  ELSE IF ~DistinctColumns(named) THEN DDLResult(d, "panic")
  ELSE CreateStoreMetadata(
         IF temporary
         THEN [d EXCEPT !.temp = (name :> CreatedColumns(named)) @@ @]
         ELSE [d EXCEPT !.tables = (name :> CreatedColumns(named)) @@ @],
         name, named, temporary, env)

\* CreateTable: the reserved name is refused first; an existing table (of
\* sqlite_master, where TEMP tables are not listed) is opened or refused; an
\* unknown field type is refused before anything is executed.
CreateTable(d, name, fields, openIfExists, temporary, env) ==
  IF name = SysMetaTable THEN DDLResult(d, "panic")
  ELSE IF tableExists(d, name)
  THEN DDLResult(d, IF openIfExists THEN "true" ELSE "panic")
  ELSE IF \E i \in DOMAIN fields : HasName(fields[i]) /\ ~KnownType(fields[i].t)
  THEN DDLResult(d, "panic")
  ELSE CreateExec(d, name, SelectSeq(fields, HasName), temporary, env)

\* The statements and the metadata changes AlterTable collects from its
\* clauses, in order: for a clause's drop, then for its add.
AlterSteps(clauses) ==
  LET RECURSIVE steps(_)
      steps(i) ==
        IF i > Len(clauses) THEN <<>>
        ELSE (IF clauses[i].drop # ""
              THEN <<[Drop |-> TRUE, FieldName |-> clauses[i].drop, t |-> ""]>>
              ELSE <<>>)
             \o (IF clauses[i].add # ""
                 THEN <<[Drop |-> FALSE, FieldName |-> clauses[i].add,
                         t |-> clauses[i].t]>>
                 ELSE <<>>)
             \o steps(i + 1)
  IN steps(1)

\* One ALTER TABLE statement inside the transaction: <<tx, ok>>.  DROP
\* COLUMN needs the column (and refuses the primary key); ADD COLUMN needs
\* the name to be free.
ExecAlter(tx, name, st) ==
  IF st.Drop
  THEN IF st.FieldName \in DOMAIN tx.tables[name] /\ st.FieldName # "id"
       THEN <<[tx EXCEPT !.tables[name] =
                 [c \in DOMAIN @ \ {st.FieldName} |-> @[c]]], TRUE>>
       ELSE <<tx, FALSE>>
  ELSE IF st.FieldName \notin DOMAIN tx.tables[name]
       THEN <<[tx EXCEPT !.tables[name] =
                 (st.FieldName :> FieldTypes[st.t].ActualType) @@ @], TRUE>>
       ELSE <<tx, FALSE>>

ExecMetadataWholeTable(tx, name, st) ==
  IF ~tableExists(tx, SysMetaTable) THEN <<tx, FALSE>>
  ELSE IF st.Drop
  THEN <<[tx EXCEPT !.meta = SelectSeq(@, LAMBDA m : m.TableName # name)],
         TRUE>>
  ELSE <<[tx EXCEPT !.meta =
            Append(@, MetadataRow(name, st.FieldName, FieldTypes[st.t],
                                  FALSE))], TRUE>>

\* One step of alterMetadata inside the transaction: <<tx, ok>>.  A drop
\* deletes the rows of that table and field, an add creates one row.
ExecMetadata(tx, name, st) ==
  IF ~tableExists(tx, SysMetaTable) THEN <<tx, FALSE>>
  ELSE IF st.Drop
  THEN <<[tx EXCEPT !.meta =
            SelectSeq(@, LAMBDA m : ~(m.TableName = name
                                      /\ m.FieldName = st.FieldName))], TRUE>>
  ELSE <<[tx EXCEPT !.meta =
            Append(@, MetadataRow(name, st.FieldName, FieldTypes[st.t],
                                  FALSE))], TRUE>>

RollbackKeeping(d, tx) == tx

\* tx.Rollback(): the database as it was at db.Begin().
Rollback(d, tx) == d

\* tx.Commit()
TxCommit(d, tx) == tx

\* The transaction: every statement, then every metadata change (steps
\* Len(steps)+1 .. 2*Len(steps)); the first failure rolls back and raises.

AlterRun(d, name, steps, env) ==
  LET RECURSIVE run(_, _)
      run(tx, i) ==
        IF i > 2 * Len(steps) THEN DDLResult(TxCommit(d, tx), "true")
        ELSE IF env.failAt = i THEN DDLResult(Rollback(d, tx), "panic")
        ELSE IF i <= Len(steps)
        THEN IF ExecAlter(tx, name, steps[i])[2]
             THEN run(ExecAlter(tx, name, steps[i])[1], i + 1)
             ELSE DDLResult(Rollback(d, tx), "panic")
        ELSE IF ExecMetadata(tx, name, steps[i - Len(steps)])[2]
             THEN run(ExecMetadata(tx, name, steps[i - Len(steps)])[1], i + 1)
             ELSE DDLResult(Rollback(d, tx), "panic")
  IN run(d, 1)

\* AlterTable: the reserved name and a missing table are refused; an add
\* of an unknown type is refused before the transaction begins.
AlterTable(d, name, clauses, env) ==
  IF name = SysMetaTable THEN DDLResult(d, "panic")
  ELSE IF ~tableExists(d, name) THEN DDLResult(d, "panic")
  ELSE IF \E i \in DOMAIN clauses :
            clauses[i].add # "" /\ ~KnownType(clauses[i].t)
  THEN DDLResult(d, "panic")
  ELSE AlterRun(d, name, AlterSteps(clauses), env)

\* DropTable: the metadata rows of that table are deleted (the outcome is
\* ignored), then DROP TABLE IF EXISTS, which finds a TEMP table of that
\* name first; dropping table_metadata takes its rows with it.  A failed DROP is returned as an error, which the Lua
\* binding raises.
DropMetadata(d, name) ==
  [d EXCEPT !.meta = SelectSeq(@, LAMBDA m : m.TableName # name)]

DropExec(d, name) ==
  IF name \in DOMAIN d.temp
  THEN [d EXCEPT !.temp = [n \in DOMAIN @ \ {name} |-> @[n]]]
  ELSE [d EXCEPT !.tables = [n \in DOMAIN @ \ {name} |-> @[n]],
                 !.meta = IF name = SysMetaTable THEN <<>> ELSE @]

clearTempMetaKeepingAll(d) == d

\* clearTempMeta: DELETE the metadata rows flagged temporary (the outcome
\* is not looked at; without table_metadata there is nothing to delete).
clearTempMeta(d) ==
  [d EXCEPT !.meta = SelectSeq(@, LAMBDA m : ~m.Temporary)]

\* OpenDB: a new connection to the file, which has no TEMP tables, then
\* clearTempMeta.
OpenDB(d) == clearTempMeta([d EXCEPT !.temp = NoTables])

\* CreateDB: an existing file is opened with OpenDB; a new one gets
\* table_metadata from AutoMigrate, then clearTempMeta.
NewDB ==
  [tables |-> (SysMetaTable :> MetaColumns), temp |-> NoTables, meta |-> <<>>]

CreateDB(d, exists) == IF exists THEN OpenDB(d) ELSE clearTempMeta(NewDB)

DropTable(d, name, env) ==
  IF env.failAt = 1 THEN DDLResult(DropMetadata(d, name), "panic")
  ELSE DDLResult(DropExec(DropMetadata(d, name), name), "true")

\* ---------------------------------------------------------------- inputs
\* <<field, value>> pairs: the text the browse editor hands to SaveField and
\* AddRow, and what a script assigns to a field (a Lua number arrives as a
\* float64, which the Boolean column b refuses and the Integer column n
\* accepts).
TextInputs == {<<"b", GoString(<<"1">>)>>}
LuaInputs == TextInputs \cup {<<"b", GoFloat64(1)>>}
MoreTextInputs ==
  TextInputs \cup {<<"n", GoString(<<"1">>)>>,
                   <<"b", GoString(<<"t", "r", "u", "e">>)>>}
MoreLuaInputs == MoreTextInputs \cup {<<"n", GoFloat64(1)>>}

\* Values for the Time column t: canonical, display form, of neither form,
\* display form with an hour that does not exist, canonical form with one.
TimeTextInputs ==
  {<<"t", GoString(<<"1", "0", "1", "5", "0", "0">>)>>,
   <<"t", GoString(<<"1", "0", ":", "1", "5", ":", "0", "0">>)>>,
   <<"t", GoString(<<"x">>)>>,
   <<"t", GoString(<<"9", "9", ":", "1", "5", ":", "0", "0">>)>>,
   <<"t", GoString(<<"9", "9", "1", "5", "0", "0">>)>>}
TimeInputs == TimeTextInputs \cup {<<"b", GoFloat64(1)>>}

\* What the script of the field reads assigns: the Boolean column as text
\* and as a number, and the values for the Time column.
GetInputs == TextInputs \cup TimeInputs

\* Filter expressions a caller sets: none, one value, two values joined by
\* "|", and a clause with a trailing "&".
FilterInputs == {<<>>, <<"1">>, <<"0", "|", "1">>, <<"1", "&">>}
FilterFields == {"n", "b"}

\* What a call meets: whether the storage engine rejects the statement it
\* issues, the order in which Go iterates the filteredFields map, and, when
\* the cursor row (the fields Lua insert and update pass) holds values that
\* fail conversion in both ways, which failure the iteration over the
\* fields meets first.
KeyOrders(S) ==
  LET RECURSIVE perms(_)
      perms(T) == IF T = {} THEN {<<>>}
                  ELSE UNION {{<<x>> \o q : q \in perms(T \ {x})} : x \in T}
  IN perms(S)

FirstFailures(rec) ==
  IF rec # GoNil /\ ConversionFailures(rec) = {"script", "data"}
  THEN {"script", "data"} ELSE {"script"}

Envs(s) ==
  {[fail |-> f, keys |-> k, first |-> h] :
     f \in BOOLEAN, k \in KeyOrders(DOMAIN s.filteredFields),
     h \in FirstFailures(GetCurrentRecord(s))}

\* Table names a script passes to the DDL calls, the field declarations of
\* a createTable structure, and the clauses of an alterTable structure.
DDLNames == {SysMetaTable, "t2"}
DDLFields == {"a", "b"}
DDLTypes == {"Integer", "Boolean", "Double"}
AlterTypes == {"Boolean", "Double"}
FieldDecls == [n : DDLFields, t : DDLTypes]
AlterClauses ==
  [drop : DDLFields, add : {""}, t : {""}]
    \cup [drop : {""}, add : DDLFields, t : AlterTypes]
    \cup {[drop |-> "a", add |-> "b", t |-> "Boolean"]}

SeqsUpTo(S, n) == UNION {[1..k -> S] : k \in 0..n}

\* The same for createTableTemp.
TempNames == {"t3"}
TempDecls == [n : {"a"}, t : {"Boolean", "Integer"}]

\* What a DDL call meets: the step at which the storage engine fails (0:
\* at none; createTable has two steps, dropTable one).
DDLEnvs(steps) == [failAt : 0..steps]

\* Templates a script passes to SetDateFormat, SetTimeFormat and
\* SetDateTimeFormat: well formed ones, ones with a token missing or a unit
\* given twice, the empty one, and ones with letters in excess.
DateTemplates ==
  {<<"d", "d", ".", "m", "m", ".", "y", "y", "y", "y">>,
   <<"y", "y", "y", "y", "-", "m", "m", "-", "d", "d">>,
   <<"d", "d", "d", ".", "m", "m", ".", "y", "y", "y", "y", "y">>,
   <<"d", "d", "d", ".", "M", "M", ".", "y", "y", "y", "y", "y">>,
   <<"d", "d", ".", "m", "m">>,
   <<"d", "d", ".", "m", "m", ".", "M", "M", ".", "y", "y", "y", "y">>,
   <<>>}
TimeTemplates ==
  {<<"h", "h", ":", "i", "i", ":", "s", "s">>,
   <<"h", "h", ":", "i", "i", ":", "s", "s", "s", "y", "y", "y">>,
   <<"h", "h", ":", "i", "i">>,
   <<>>}
DateTimeTemplates ==
  {<<"d", "d", ".", "m", "m", ".", "y", "y", "y", "y", " ", "h", "h", ":", "i", "i", ":", "s", "s">>,
   <<"d", "d", "d", ".", "m", "m", ".", "y", "y", "y", "y", "y", " ", "h", "h", ":", "i", "i", ":", "s", "s", "s">>,
   <<"d", "d", ".", "m", "m", ".", "y", "y", "y", "y">>}

\* Values handed to FormatDateTime: canonical ones (valid and not), display
\* ones, and the empty string.
FormatInputs ==
  [DATE |-> {<<>>,
            <<"2", "0", "2", "4", "0", "6", "1", "5">>,
            <<"2", "0", "2", "4", "0", "2", "2", "9">>,
            <<"1", "9", "9", "9", "1", "2", "3", "1">>,
            <<"2", "0", "2", "3", "0", "2", "2", "9">>,
            <<"1", "5", ".", "0", "6", ".", "2", "0", "2", "4">>,
            <<"x">>},
   TIME |-> {<<>>,
            <<"1", "0", "1", "5", "0", "0">>,
            <<"2", "3", "5", "9", "5", "9">>,
            <<"2", "4", "6", "0", "0", "0">>,
            <<"1", "0", ":", "1", "5", ":", "0", "0">>},
   DATETIME |-> {<<>>,
                <<"2", "0", "2", "4", "0", "6", "1", "5", "1", "0", "1", "5", "0", "0">>,
                <<"2", "0", "2", "4", "0", "2", "2", "9", "2", "3", "5", "9", "5", "9">>,
                <<"1", "5", ".", "0", "6", ".", "2", "0", "2", "4", " ", "1", "0", ":", "1", "5", ":", "0", "0">>}]

\* Filter expressions compiled for a field of each type.
CompileInputs ==
  {<<"'", "'">>,
   <<"5">>,
   <<"=", "=", "5">>,
   <<"~", "=", "5">>,
   <<">", "=", "5">>,
   <<"<", "=", "5">>,
   <<">", "5">>,
   <<"<", "5">>,
   <<"=", "=", "'", "5", "'">>,
   <<"=", "=", " ", "5">>,
   <<"a", "%">>,
   <<"=", "=", "a", "%">>,
   <<"5", "|", ">", "=", "7">>,
   <<"5", "&">>,
   <<"&", "5">>,
   <<"5", "|", "|", "7">>,
   <<"5", "|", "7", "&", "9">>,
   <<"1", "5", ".", "0", "6", ".", "2", "0", "2", "4">>,
   <<">", "=", "0", "1", ".", "0", "1", ".", "2", "0", "2", "4">>}

\* Filters set on the d field of the Table over dates.
DateFilters ==
  {<<">", "=", "0", "1", ".", "0", "1", ".", "2", "0", "2", "4", "&", "<", "=", "3", "1", ".", "1", "2", ".", "2", "0", "2", "4">>,
   <<">", "0", "1", ".", "0", "1", ".", "2", "0", "2", "4", "&", "<", "3", "1", ".", "1", "2", ".", "2", "0", "2", "4">>,
   <<"1", "5", ".", "0", "6", ".", "2", "0", "2", "4">>,
   <<"'", "'">>,
   <<>>}

\* Filters on the Integer field n that name the value 5, bare, quoted and
\* behind ==.
FiveFilters ==
  {<<>>, <<"5">>, <<"=", "=", "'", "5", "'">>, <<"=", "=", "5">>}

\* ---------------------------------------------------------------- actions
NoHook == stack = <<>>

\* A Lua entry point may be called by the main script or by a hook body that
\* has calls left (the after-delete hook is handed a cursor of its own).
CanCall ==
  IF stack = <<>> THEN TRUE
  ELSE /\ stack[Len(stack)].kind # "delete"
       /\ stack[Len(stack)].n < MaxHookOps

\* Count the call against the hook body that made it.
Bump(post) ==
  IF Len(stack) > 0 /\ Len(post.stack) >= Len(stack)
  THEN [post EXCEPT !.stack[Len(stack)].n = @ + 1]
  ELSE post

\* One operation: its effect, and the record of what was called and what it
\* returned (depth: how many hook bodies were executing when it was called).
Do(op, r, field, value, arg, fields) ==
  /\ Len(r.s.stack) <= MaxDepth
  /\ Len(r.s.rows) <= MaxRows
  /\ Commit(Bump(r.s))
  /\ last' = [op |-> op, res |-> r.res, id |-> r.id, did |-> r.did,
              rejected |-> r.rejected,
              field |-> field, value |-> value, arg |-> arg,
              fields |-> fields, depth |-> Len(stack), tbl |-> "first"]

LuaFind ==
  /\ CanCall
  /\ \E env \in Envs(Cur) :
       Do("Find", Find(Cur, env), "", GoNil, GoNil, EmptyRecord)

\* Lua FindByID: L.ToInteger yields a Go int, passed on as interface{}.
LuaFindByID ==
  /\ CanCall
  /\ \E id \in 1..MaxId, env \in Envs(Cur) :
       Do("FindByID", FindByID(Cur, GoInt(id), env), "lua", GoNil, GoInt(id),
          EmptyRecord)

\* getRowId: the cursor row's id as an int64, 0 when there is none.
getRowId(s) ==
  IF GetCurrentRecord(s) = GoNil THEN 0 ELSE GetCurrentRecord(s).id.v

\* refreshBrowseLine: unless getRowId gives 0, FindByID with that int64.
refreshBrowseLine ==
  /\ NoHook
  /\ getRowId(Cur) # 0
  /\ \E env \in Envs(Cur) :
       Do("FindByID", FindByID(Cur, GoInt64(getRowId(Cur)), env), "browse",
          GoNil, GoInt64(getRowId(Cur)), EmptyRecord)

\* Lua Next / Prev: the Rowset is dereferenced unchecked.
LuaNext ==
  /\ CanCall
  /\ Do("Next", IF loaded THEN Next_(Cur) ELSE Panic(Cur),
        "", GoNil, GoNil, EmptyRecord)

LuaPrev ==
  /\ CanCall
  /\ Do("Prev", IF loaded THEN Prev(Cur) ELSE Panic(Cur),
        "", GoNil, GoNil, EmptyRecord)

\* The fields Lua Insert and Update pass: the current record (nil if none).
CurrentFields(s) ==
  IF GetCurrentRecord(s) = GoNil THEN EmptyRecord ELSE GetCurrentRecord(s)

LuaInsert ==
  /\ CanCall
  /\ nextId <= MaxId
  /\ \E env \in Envs(Cur) :
       Do("Insert", Insert(Cur, CurrentFields(Cur), env), "", GoNil, GoNil,
          CurrentFields(Cur))

\* Lua Update: the id is the current record's, as int or int64 (anything
\* else raises), and the fields are the whole current record.
LuaUpdateCall(s, rec, env) ==
  IF rec = GoNil \/ rec.id.t \notin {"int", "int64"} THEN Panic(s)
  ELSE Update(s, rec.id.v, rec, env)

LuaUpdate ==
  /\ CanCall
  /\ \E env \in Envs(Cur) :
       Do("Update", LuaUpdateCall(Cur, GetCurrentRecord(Cur), env), "", GoNil,
          GoNil, CurrentFields(Cur))

\* Lua field assignment (__newindex): GetField must know the field, which
\* it does not on an unloaded Table; then SetField.
LuaSetField(Inputs) ==
  /\ CanCall
  /\ \E in \in Inputs, env \in Envs(Cur) :
       Do("SetField",
          IF loaded THEN SetField(Cur, in[1], in[2], env) ELSE Panic(Cur),
          in[1], in[2], GoNil, EmptyRecord)

\* Lua field read (__index) of a name that is no method: GetField, and a
\* script error when it gives nil; the value read is kept in arg.
GetFieldDone(s, key, val) ==
  Do("GetField", IF val = GoNil THEN Panic(s) ELSE Result(s, "true", 0),
     key, GoNil, val, EmptyRecord)

LuaGetField ==
  /\ CanCall
  /\ \E key \in Columns : GetFieldDone(Cur, key, GetField(Cur, key))

TableSaveField(Inputs) ==
  /\ NoHook
  /\ nextId <= MaxId
  /\ \E in \in Inputs, env \in Envs(Cur) :
       Do("SaveField", SaveField(Cur, in[1], in[2], env), in[1], in[2],
          GoNil, [f \in {in[1]} |-> in[2]])

TableAddRow(Inputs) ==
  /\ NoHook
  /\ nextId <= MaxId
  /\ \E in \in Inputs, env \in Envs(Cur), env2 \in Envs(Cur) :
       Do("AddRow", AddRow(Cur, in[1], in[2], env, env2), in[1], in[2],
          GoNil, AddRowFields(in[1], in[2]))

TableDeleteRow ==
  /\ NoHook
  /\ \E env \in Envs(Cur) :
       Do("DeleteRow", DeleteRow(Cur, env), "", GoNil, GoNil, EmptyRecord)

\* TBrowse.deleteRow: DeleteRow and, when the view is left with its header
\* only (the Rowset is empty), Init.
browseDeleteRowDone(d, env2) ==
  IF d.res = "true" /\ Len(d.s.stack) = 0 /\ Len(d.s.rows) = 0
  THEN Result(TableInit(d.s, env2), "true", 0)
  ELSE d

browseDeleteRow ==
  /\ NoHook
  /\ \E env \in Envs(Cur), env2 \in Envs(Cur) :
       Do("browseDeleteRow", browseDeleteRowDone(DeleteRow(Cur, env), env2),
          "", GoNil, GoNil, EmptyRecord)

\* refreshBrowse: Find; with rows, walk Next to the last row (and back to
\* the first when goTop); with none, or on an execution error, Init.
refreshBrowseFound(f, env2, goTop) ==
  IF f.res = "true"
  THEN Result(IF goTop THEN ScrollToBeginning(f.s) ELSE ScrollToEnd(f.s),
              "true", 0)
  ELSE Result(TableInit(f.s, env2), "false", 0)

refreshBrowse ==
  /\ NoHook
  /\ \E env \in Envs(Cur), env2 \in Envs(Cur), goTop \in BOOLEAN :
       Do("refreshBrowse", refreshBrowseFound(Find(Cur, env), env2, goTop),
          "", GoNil, GoNil, EmptyRecord)

Scroll ==
  /\ NoHook
  /\ loaded
  /\ \/ Do("ScrollToBeginning", Result(ScrollToBeginning(Cur), "true", 0),
           "", GoNil, GoNil, EmptyRecord)
     \/ Do("ScrollToEnd", Result(ScrollToEnd(Cur), "true", 0), "", GoNil, GoNil,
           EmptyRecord)
     \/ \E row \in 0..MaxRows :
          Do("ScrollToRow", Result(ScrollToRow(Cur, row), "true", 0),
             "", GoNil, GoInt(row), EmptyRecord)

\* The Lua DDL bindings.  Each leaves the Table alone and records the
\* table name, the structure, for createTable openIfExists, and the rows
\* table_metadata held when the call was made.
GoBool(v) == [t |-> "bool", v |-> IF v THEN 1 ELSE 0, s |-> <<>>]

DoDDL(op, r, name, value, structure) ==
  /\ Commit([Cur EXCEPT !.db = r.d])
  /\ last' = [op |-> op, res |-> r.res, id |-> 0, did |-> "none",
              rejected |-> FALSE,
              field |-> name, value |-> value, arg |-> structure,
              fields |-> EmptyRecord, depth |-> 0, tbl |-> "first",
              meta |-> db.meta]

dbCreateTable ==
  /\ NoHook
  /\ \E name \in DDLNames, fields \in SeqsUpTo(FieldDecls, MaxClauses),
        openIfExists \in BOOLEAN, env \in DDLEnvs(2) :
       DoDDL("CreateTable",
             CreateTable(db, name, fields, openIfExists, FALSE, env),
             name, GoBool(openIfExists), fields)

dbCreateTableTemp ==
  /\ NoHook
  /\ Len(db.meta) < MaxMeta
  /\ \E name \in TempNames, fields \in SeqsUpTo(TempDecls, MaxClauses),
        openIfExists \in BOOLEAN, env \in DDLEnvs(2) :
       DoDDL("CreateTableTemp",
             CreateTable(db, name, fields, openIfExists, TRUE, env),
             name, GoBool(openIfExists), fields)

\* DBOpen and DBCreate; the path of DBCreate names the file in use or a new
\* one.
dbOpen ==
  /\ NoHook
  /\ DoDDL("OpenDB", DDLResult(OpenDB(db), "true"), "", GoNil, <<>>)

dbCreate ==
  /\ NoHook
  /\ \E exists \in BOOLEAN :
       DoDDL("CreateDB", DDLResult(CreateDB(db, exists), "true"), "",
             GoBool(exists), <<>>)

dbAlterTable ==
  /\ NoHook
  /\ \E name \in DDLNames, clauses \in SeqsUpTo(AlterClauses, MaxClauses),
        env \in DDLEnvs(MaxFailAt) :
       DoDDL("AlterTable", AlterTable(db, name, clauses, env), name, GoNil,
             clauses)

dbDropTable ==
  /\ NoHook
  /\ \E name \in DDLNames, env \in DDLEnvs(1) :
       DoDDL("DropTable", DropTable(db, name, env), name, GoNil, <<>>)

LuaSetFilterOf(fields, filters) ==
  /\ NoHook
  /\ \E field \in fields, filter \in filters :
       Do("SetFilter", Result(SetFilter(Cur, field, filter), "true", 0), field,
          GoString(filter), GoNil, EmptyRecord)

LuaSetFilter == LuaSetFilterOf(FilterFields, FilterInputs)

\* Lua SetRangeFilter: L.ToInteger gives the bounds as Go ints.
LuaSetRangeFilter ==
  /\ NoHook
  /\ \E min \in 1..MaxId, max \in 1..MaxId :
       /\ min <= max
       /\ Do("SetRangeFilter",
             Result(SetRangeFilter(Cur, PrimaryKeyField, min, max), "true", 0),
             PrimaryKeyField, GoNil, GoNil, EmptyRecord)

LuaSetOrderBy ==
  /\ NoHook
  /\ \E order \in {"", "id DESC"} :
       Do("OrderBy", Result(OrderBy(Cur, order), "true", 0), order, GoNil,
          GoNil, EmptyRecord)

\* The script registers a hook (SetOnAfterInsert / Update / Delete).
SetOnAfter ==
  /\ NoHook
  /\ \E h \in {"insert", "update", "delete"} :
       /\ ~hooks[h]
       /\ Do("SetOnAfter", Result([Cur EXCEPT !.hooks[h] = TRUE], "true", 0),
             h, GoNil, GoNil, EmptyRecord)

\* The script registers a hook name, or registers another one in its
\* place; the name is the name of a Lua function or of something else.
SetOnAfterNamed ==
  /\ NoHook
  /\ \E h \in {"insert", "update", "delete"}, fn \in BOOLEAN :
       /\ (hooks[h] => isFunction[h] # fn)
       /\ Do("SetOnAfter",
             Result([Cur EXCEPT !.hooks[h] = TRUE, !.isFunction[h] = fn],
                    "true", 0),
             h, GoNil, GoBool(fn), EmptyRecord)

\* SetDateFormat, SetTimeFormat, SetDateTimeFormat of the script, a value
\* formatted, a filter compiled, and Find over the dates table: the call,
\* its inputs (the type in mode) and what it gave (in out).
DoFormat(op, fm, res, mode, value, arg, out) ==
  /\ Commit([Cur EXCEPT !.formats = fm])
  /\ last' = [op |-> op, res |-> res, id |-> 0, did |-> "none",
              rejected |-> FALSE,
              field |-> "", value |-> value, arg |-> arg,
              fields |-> EmptyRecord, depth |-> 0, tbl |-> "first",
              mode |-> mode, out |-> out]

DoSetFormat(op, r, mode, df) ==
  DoFormat(op, r.fm, r.res, mode, GoString(df), GoNil, GoNil)

setDateFormat ==
  /\ NoHook
  /\ \E df \in DateTemplates :
       DoSetFormat("SetDateFormat", SetDateFormat(formats, df), "DATE", df)

setTimeFormat ==
  /\ NoHook
  /\ \E tf \in TimeTemplates :
       DoSetFormat("SetTimeFormat", SetTimeFormat(formats, tf), "TIME", tf)

setDateTimeFormat ==
  /\ NoHook
  /\ \E dtf \in DateTimeTemplates :
       DoSetFormat("SetDateTimeFormat", SetDateTimeFormat(formats, dtf),
                   "DATETIME", dtf)

FormatValueDone(inp, mode, direction, r) ==
  DoFormat("FormatDateTime", formats, IF r[2] THEN "true" ELSE "error", mode,
           GoString(inp), direction, r[1])

formatValue ==
  /\ NoHook
  /\ \E mode \in TimeTypes, direction \in {ToInternalFormat, ToUserFormat} :
       \E inp \in FormatInputs[mode] :
         FormatValueDone(inp, mode, direction,
                         FormatDateTime(formats, inp, mode, direction))

compileFilter ==
  /\ NoHook
  /\ \E fType \in FilterTypes, filter \in CompileInputs :
       DoFormat("parseFilterByType", formats, "true", fType, GoString(filter),
                GoNil, parseFilterByType(formats, "f", filter, fType))

FindDatesDone(filter, ids) ==
  DoFormat("FindDates", formats, IF ids # {} THEN "true" ELSE "false", "DATE",
           GoString(filter), GoNil, ids)

findDates ==
  /\ NoHook
  /\ \E filter \in DateFilters : FindDatesDone(filter, FindDates(formats, filter))

\* ------------------------------------------------- the second Table
\* A method called on the second Table: the operation as it runs on that
\* Table's fields, recorded as called on "second".
DoSecond(op, r, field, value, fields) ==
  /\ Len(r.s.stack) <= MaxDepth
  /\ Len(r.s.rows) <= MaxRows
  /\ Commit(Bump(SwapTables(r.s)))
  /\ last' = [op |-> op, res |-> r.res, id |-> r.id, did |-> r.did,
              rejected |-> r.rejected,
              field |-> field, value |-> value, arg |-> GoNil,
              fields |-> fields, depth |-> Len(stack), tbl |-> "second"]

SecondFind ==
  /\ CanCall
  /\ \E env \in Envs(SwapTables(Cur)) :
       DoSecond("Find", Find(SwapTables(Cur), env), "", GoNil, EmptyRecord)

SecondSetField ==
  /\ CanCall
  /\ \E in \in TextInputs, env \in Envs(SwapTables(Cur)) :
       DoSecond("SetField",
                IF other.loaded
                THEN SetField(SwapTables(Cur), in[1], in[2], env)
                ELSE Panic(SwapTables(Cur)),
                in[1], in[2], EmptyRecord)

SecondUpdate ==
  /\ CanCall
  /\ \E env \in Envs(SwapTables(Cur)) :
       DoSecond("Update",
                LuaUpdateCall(SwapTables(Cur),
                              GetCurrentRecord(SwapTables(Cur)), env),
                "", GoNil, CurrentFields(SwapTables(Cur)))

SecondSetOnAfterUpdate ==
  /\ NoHook
  /\ ~other.hooks.update
  /\ DoSecond("SetOnAfter",
              Result(SwapTables([Cur EXCEPT !.other.hooks.update = TRUE]),
                     "true", 0),
              "update", GoNil, EmptyRecord)

\* What the operation that dispatched a hook still does once the hook body
\* has returned: DeleteRow's Rowset adjustment, AddRow's Find.
Continue(s, cont, env) ==
  CASE cont = "DeleteRow" -> Result(DeleteRowAdjust(s), "true", 0)
    [] cont = "AddRow" -> Find(s, env)
    [] OTHER -> Result(s, "true", 0)

\* The innermost hook body returns to the operation that dispatched it; the
\* deferred SetAfterUpdateRunning(false) of an after-update dispatch runs.
PopFrame(s) ==
  [s EXCEPT !.stack = SubSeq(s.stack, 1, Len(s.stack) - 1),
            !.afterUpdateRunning =
               IF s.stack[Len(s.stack)].kind = "update" THEN FALSE ELSE @]

HookReturnDone(r, kind) ==
  /\ Commit(r.s)
  /\ last' = [op |-> "HookReturn", res |-> r.res, id |-> 0, did |-> "none",
              rejected |-> FALSE,
              field |-> kind, value |-> GoNil, arg |-> GoNil,
              fields |-> EmptyRecord, depth |-> Len(stack), tbl |-> "first"]

HookReturn ==
  /\ stack # <<>>
  /\ \E env \in Envs(Cur) :
       /\ (stack[Len(stack)].cont # "AddRow" => ~env.fail)
       /\ HookReturnDone(Continue(PopFrame(Cur), stack[Len(stack)].cont, env),
                         stack[Len(stack)].kind)

\* ---------------------------------------------------------- specification
NoOp ==
  [op |-> "none", res |-> "true", id |-> 0, did |-> "none",
   rejected |-> FALSE, field |-> "",
   value |-> GoNil, arg |-> GoNil, fields |-> EmptyRecord, depth |-> 0,
   tbl |-> "first"]

\* What OpenTable leaves besides the storage rows: no Rowset, no filter, no
\* range, no order, no hook.
Opened ==
  /\ loaded = FALSE
  /\ rows = <<>>
  /\ pos = 0
  /\ XRecord = GoNil
  /\ hooks = [insert |-> FALSE, update |-> FALSE, delete |-> FALSE]
  /\ isFunction = [insert |-> TRUE, update |-> TRUE, delete |-> TRUE]
  /\ afterUpdateRunning = FALSE
  /\ lastErrorText = ""
  /\ filteredFields = [k \in {} |-> <<>>]
  /\ rangeFilter = <<>>
  /\ filterByField = ""
  /\ orderBy = ""
  /\ stack = <<>>
  /\ other = [loaded |-> FALSE, rows |-> <<>>, pos |-> 0, XRecord |-> GoNil,
              hooks |-> [insert |-> FALSE, update |-> FALSE, delete |-> FALSE],
              filteredFields |-> [k \in {} |-> <<>>], rangeFilter |-> <<>>,
              filterByField |-> "", orderBy |-> ""]
  /\ db = CreatedDB
  /\ formats = StartFormats
  /\ last = NoOp

\* A Table opened over a new, empty storage table.
Init ==
  /\ store = [i \in {} |-> GoNil]
  /\ nextId = 1
  /\ Opened

\* The cursor and CRUD operations of a Table with no hook registered.
Next ==
  \/ LuaFind
  \/ LuaFindByID
  \/ refreshBrowseLine
  \/ LuaNext
  \/ LuaPrev
  \/ LuaInsert
  \/ LuaUpdate
  \/ LuaSetField(LuaInputs)
  \/ TableSaveField(TextInputs)
  \/ TableAddRow(TextInputs)
  \/ TableDeleteRow
  \/ browseDeleteRow
  \/ refreshBrowse
  \/ Scroll

Spec == Init /\ [][Next]_vars

\* The mutations of a Table whose script registers hooks.
NextHooks ==
  \/ SetOnAfter
  \/ LuaFind
  \/ LuaInsert
  \/ LuaUpdate
  \/ LuaSetField(LuaInputs)
  \/ TableSaveField(TextInputs)
  \/ TableAddRow(TextInputs)
  \/ TableDeleteRow
  \/ LuaNext
  \/ LuaPrev
  \/ HookReturn

SpecHooks == Init /\ [][NextHooks]_vars

\* Inserts with values for both data columns.
NextInsert ==
  \/ LuaFind
  \/ LuaPrev
  \/ LuaSetField(MoreLuaInputs)
  \/ LuaInsert
  \/ TableSaveField(MoreTextInputs)
  \/ TableAddRow(MoreTextInputs)

SpecInsert == Init /\ [][NextInsert]_vars

\* A script that assigns Time values (and a number to the Boolean column)
\* and inserts or updates the cursor row; the browse editor saving a Time
\* cell.
NextTime ==
  \/ LuaFind
  \/ LuaNext
  \/ LuaSetField(TimeInputs)
  \/ LuaInsert
  \/ LuaUpdate
  \/ TableSaveField(TimeTextInputs)

SpecTime == Init /\ [][NextTime]_vars

\* A script that creates, alters and drops tables, the reserved
\* table_metadata among the names it passes.
NextDDL ==
  \/ dbCreateTable
  \/ dbAlterTable
  \/ dbDropTable

SpecDDL == Init /\ [][NextDDL]_vars

\* A script that creates temporary tables, drops tables and opens the
\* database again.
NextOpen ==
  \/ dbCreateTableTemp
  \/ dbDropTable
  \/ dbOpen
  \/ dbCreate

SpecOpen == Init /\ [][NextOpen]_vars

\* A Table opened over a storage table that already holds rows, its
\* filters, range and order set by the script, then Find.
InitFind ==
  /\ store \in [1..MaxId -> [n : 0..1, b : 0..1, t : {<<>>}]]
  /\ nextId = MaxId + 1
  /\ Opened

NextFind ==
  \/ LuaSetFilter
  \/ LuaSetRangeFilter
  \/ LuaSetOrderBy
  \/ LuaFind

SpecFind == InitFind /\ [][NextFind]_vars

\* The script's two Tables over one storage table that holds rows: each may
\* register an after-update hook, and the main script and the hook bodies
\* call Find, field assignment and Update on either.
InitTwoTables ==
  /\ store \in [1..MaxId -> [n : {0}, b : 0..1, t : {<<>>}]]
  /\ nextId = MaxId + 1
  /\ Opened

SetOnAfterUpdate ==
  /\ NoHook
  /\ ~hooks.update
  /\ Do("SetOnAfter", Result([Cur EXCEPT !.hooks.update = TRUE], "true", 0),
        "update", GoNil, GoNil, EmptyRecord)

NextTwoTables ==
  \/ SetOnAfterUpdate
  \/ SecondSetOnAfterUpdate
  \/ LuaFind
  \/ SecondFind
  \/ LuaSetField(TextInputs)
  \/ SecondSetField
  \/ LuaUpdate
  \/ SecondUpdate
  \/ HookReturn

SpecTwoTables == InitTwoTables /\ [][NextTwoTables]_vars

\* A script that reads fields between Find, field assignment, Insert, Next
\* and the deletion of rows.
NextGet ==
  \/ LuaGetField
  \/ LuaFind
  \/ LuaNext
  \/ LuaSetField(GetInputs)
  \/ LuaInsert
  \/ TableDeleteRow

SpecGet == Init /\ [][NextGet]_vars

\* A Table over a storage table whose rows hold 0 and 5 in n; the script
\* sets a filter on n and calls Find.
InitFive ==
  /\ store \in [1..MaxId -> [n : {0, 5}, b : 0..1, t : {<<>>}]]
  /\ nextId = MaxId + 1
  /\ Opened

NextFive ==
  \/ LuaSetFilterOf({"n"}, FiveFilters)
  \/ LuaFind
  \/ LuaNext

SpecFive == InitFive /\ [][NextFive]_vars

\* A script that sets the display templates, formats values, and compiles
\* and runs filters.
NextFormat ==
  \/ setDateFormat
  \/ setTimeFormat
  \/ setDateTimeFormat
  \/ formatValue
  \/ compileFilter
  \/ findDates

SpecFormat == Init /\ [][NextFormat]_vars

\* ------------------------------------------------------------- properties
\* The cursor is on a row.
OnRow(rws, p) == 0 <= p /\ p < Len(rws)

\* The cursor is on a row, or the Rowset is empty with the cursor at 0.
ValidCursor(l, rws, p) == l => (OnRow(rws, p) \/ (rws = <<>> /\ p = 0))

UpdateFrames(st) == Cardinality({i \in 1..Len(st) : st[i].kind = "update"})

\* C2: an update that returns true with no after-update dispatch running and
\* a hook set starts the hook body once; an update called while a dispatch
\* is running writes its row, puts the re-fetched row at the cursor and
\* starts no hook body; at no time are two after-update bodies executing.
C2_NestedUpdateNoRecursion ==
  [][/\ UpdateFrames(stack') <= 1
     /\ (last'.op = "Update" /\ last'.res = "true" /\ hooks.update
           /\ ~afterUpdateRunning)
          => /\ Len(stack') = Len(stack) + 1
             /\ stack'[Len(stack')].kind = "update"
             /\ afterUpdateRunning'
     /\ (last'.op = "Update" /\ last'.res = "true" /\ afterUpdateRunning)
          => /\ Len(stack') = Len(stack)
             /\ store'[last'.id] = UpdatedRow(store[last'.id], last'.fields)
             /\ rows'[pos' + 1] = getRecordById(Cur', last'.id)
             /\ afterUpdateRunning']_vars

\* Inside the after-update hook body, the nested update of the same id has
\* returned true and the body is still the only one executing.
C2_Witness ==
  /\ last.op = "Update"
  /\ last.res = "true"
  /\ last.depth = 1
  /\ stack # <<>>
  /\ stack[1].kind = "update"
  /\ XRecord # GoNil
  /\ XRecord.id.v = last.id
  /\ store[last.id].b = 1

\* C3 (as stated): when DeleteRow removes the only row the Rowset is empty
\* with the cursor at 0, and a SaveField called in that state runs Insert.
C3_SaveFieldAfterLastDelete ==
  [][/\ (last'.op = "DeleteRow" /\ last'.res = "true" /\ Len(rows) = 1)
          => (rows' = <<>> /\ pos' = 0)
     /\ (last'.op = "SaveField" /\ last.op = "DeleteRow" /\ last.res = "true"
           /\ loaded /\ rows = <<>>)
          => last'.did = "Insert"]_vars

\* SaveField has been called on the Rowset DeleteRow emptied.
C3_Witness ==
  /\ last.op = "SaveField"
  /\ last.res = "false"
  /\ loaded
  /\ rows = <<>>
  /\ pos = 0

\* C4 (as stated): SaveField called with the cursor on a row runs Insert when
\* that row is the new-row placeholder (primary key int 0), whatever the
\* length of the Rowset, and runs Update by that row's primary key otherwise.
C4_SaveFieldInsertsOnPlaceholder ==
  [][(last'.op = "SaveField" /\ loaded /\ OnRow(rows, pos))
       => IF rows[pos + 1].id = GoInt(0)
          THEN last'.did = "Insert"
          ELSE last'.did = "Update"]_vars

\* SaveField has faulted with the cursor on a placeholder behind a persisted
\* row.
C4_Witness ==
  /\ last.op = "SaveField"
  /\ last.res = "panic"
  /\ last.did = "none"
  /\ Len(rows) = 2
  /\ pos = 1
  /\ rows[1].id.t = "int64"
  /\ rows[2].id = GoInt(0)

\* The last row is a pending new-row placeholder.
PlaceholderPending(rws) == rws # <<>> /\ rws[Len(rws)].id = GoInt(0)

\* C5 (as stated): after a successful Insert the re-fetched row is in the
\* Rowset exactly once and the cursor is on it; a pending placeholder is
\* replaced (same length, no placeholder left), otherwise the row is
\* appended; wherever in the Rowset the cursor was.
C5_InsertMovesCursor ==
  [][(last'.op \in {"Insert", "SaveField"} /\ last'.did = "Insert"
        /\ last'.res = "true" /\ ValidCursor(loaded, rows, pos))
       => /\ OnRow(rows', pos')
          /\ rows'[pos' + 1] = getRecordById(Cur', last'.id)
          /\ Cardinality({i \in 1..Len(rows') : rows'[i].id.v = last'.id}) = 1
          /\ IF PlaceholderPending(rows)
             THEN Len(rows') = Len(rows) /\ ~PlaceholderPending(rows')
             ELSE Len(rows') = Len(rows) + 1]_vars

\* Insert has replaced the placeholder and left the cursor on another row.
C5_Witness ==
  /\ last.op = "Insert"
  /\ last.res = "true"
  /\ Len(rows) = 2
  /\ rows[2].id = GoInt64(last.id)
  /\ pos = 0

\* A supplied value the conversion to internal form refuses.
ConvFails(fields) ==
  \E k \in DataColumns \cap DOMAIN fields :
    ~fieldUserFormatToInternalFormat(k, fields[k])[2]

\* The stack but for the count of calls its bodies have made.
Bodies(st) == [i \in 1..Len(st) |-> st[i].kind]

ReadBack(k, value) ==
  IF TableMetadata[k].ActualType = "TEXT" THEN GoString(TextAffinity(value))
  ELSE GoInt64(Affinity(value))

\* C7: the row fetched by the id an insert produced holds, in every column
\* but the primary key, the supplied value converted to internal form, or
\* the column's default when none was supplied (each as the column reads
\* back).
C7_InsertedRecord ==
  (last.did = "Insert" /\ last.id # 0)
    => /\ getRecordById(Cur, last.id) # GoNil
       /\ \A k \in DataColumns :
            getRecordById(Cur, last.id)[k] =
              IF k \in DOMAIN last.fields
              THEN ReadBack(k, fieldUserFormatToInternalFormat(k, last.fields[k])[1])
              ELSE ReadBack(k, defaultFieldValues[k])

\* A single-field insert of b = "true": the row reads b = 1, and n, not
\* supplied, its default 0.
C7_Witness ==
  /\ last.op = "SaveField"
  /\ last.did = "Insert"
  /\ last.id # 0
  /\ last.value = GoString(<<"t", "r", "u", "e">>)
  /\ DOMAIN last.fields = {"b"}
  /\ getRecordById(Cur, last.id).b = GoInt64(1)
  /\ getRecordById(Cur, last.id).n = GoInt64(0)

\* C8: a Find without an execution error replaces the Rowset by the rows
\* fetched (every stored row once, in primary-key order, no placeholder),
\* puts the cursor at 0 and returns true iff a row was fetched; a Find with
\* an execution error returns false, records the error and leaves Rowset
\* and cursor as they were.
C8_FindReplacesRowset ==
  [][last'.op = "Find"
       => IF lastErrorText' = ""
          THEN /\ loaded'
               /\ pos' = 0
               /\ (last'.res = "true") = (Len(rows') > 0)
               /\ Len(rows') = Cardinality(DOMAIN store)
               /\ \A i \in 1..Len(rows') :
                    /\ rows'[i].id.v \in DOMAIN store
                    /\ rows'[i] = getRecordById(Cur, rows'[i].id.v)
                    /\ \A j \in 1..(i - 1) : rows'[j].id.v < rows'[i].id.v
               /\ store' = store
          ELSE /\ last'.res = "false"
               /\ loaded' = loaded
               /\ rows' = rows
               /\ pos' = pos
               /\ store' = store]_vars

\* Find has fetched two rows and put the cursor on the first.
C8_Witness ==
  /\ last.op = "Find"
  /\ last.res = "true"
  /\ lastErrorText = ""
  /\ Len(rows) = 2
  /\ pos = 0

\* The row of that id satisfies the filter set on the field, taken alone.
SatisfiesFilter(s, id, field) ==
  \/ Len(s.filteredFields[field]) = 0
  \/ parseFilter(s.formats, field, s.filteredFields[field]) = <<>>
  \/ Selects(s, id, parseFilter(s.formats, field, s.filteredFields[field]))

\* The row of that id is within the range set.
SatisfiesRange(s, id) ==
  Len(s.rangeFilter) = 2
    => (id >= s.rangeFilter[1] /\ id <= s.rangeFilter[2])

\* C9 (as stated): after a Find without error every row of the Rowset is
\* within the range set and satisfies the filter of every field that has
\* one (also a filter with "|" in it), and the rows are in the order of the
\* order clause.
C9_FindConjunction ==
  (last.op = "Find" /\ lastErrorText = "" /\ loaded)
    => /\ \A i \in 1..Len(rows) :
            /\ SatisfiesRange(Cur, rows[i].id.v)
            /\ \A field \in DOMAIN filteredFields :
                 SatisfiesFilter(Cur, rows[i].id.v, field)
       /\ \A i \in 1..Len(rows), j \in 1..Len(rows) :
            i < j => IF orderBy = "id DESC" THEN rows[i].id.v > rows[j].id.v
                     ELSE rows[i].id.v < rows[j].id.v

\* Find has fetched a row outside the range set, the filter on b being
\* "0|1".
C9_Witness ==
  /\ last.op = "Find"
  /\ lastErrorText = ""
  /\ rangeFilter = <<1, 1>>
  /\ "b" \in DOMAIN filteredFields
  /\ filteredFields["b"] = <<"0", "|", "1">>
  /\ \E i \in 1..Len(rows) : rows[i].id.v = 2

\* C10 (as stated): FindByID on a Rowset with a row of that primary key
\* replaces that row by the fetched one, puts the cursor on it and leaves
\* the other rows and the length as they were, from the script entry point
\* and from the browse refresh alike; with no Rowset it makes a one-row
\* Rowset with the cursor at 0.
C10_FindByIDInPlace ==
  [][(last'.op = "FindByID" /\ last'.res = "true")
       => IF ~loaded
          THEN /\ rows' = <<getRecordById(Cur, last'.arg.v)>>
               /\ pos' = 0
          ELSE (\E i \in 1..Len(rows) : rows[i].id.v = last'.arg.v)
                 => /\ Len(rows') = Len(rows)
                    /\ OnRow(rows', pos')
                    /\ rows[pos' + 1].id.v = last'.arg.v
                    /\ rows'[pos' + 1] = getRecordById(Cur, last'.arg.v)
                    /\ \A j \in 1..Len(rows) :
                         j # pos' + 1 => rows'[j] = rows[j]]_vars

\* The script's FindByID has returned true on a storage table of two rows;
\* the Rowset holds the row asked for and no other.
C10_Witness ==
  /\ last.op = "FindByID"
  /\ last.field = "lua"
  /\ last.res = "true"
  /\ Cardinality(DOMAIN store) = 2
  /\ Len(rows) = 1
  /\ rows[1].id.v = last.arg.v

\* The cursor positions a caller sees who reads the current row and calls
\* Next until it returns false.
Visits(s) ==
  LET RECURSIVE walk(_, _)
      walk(t, acc) ==
        IF Len(acc) > Len(t.rows) THEN acc
        ELSE IF Next_(t).res = "true"
        THEN walk(Next_(t).s, Append(acc, Next_(t).s.pos))
        ELSE acc
  IN walk(s, <<s.pos>>)

WithoutRow(rws, p) ==
  [i \in 1..(Len(rws) - 1) |-> IF i <= p THEN rws[i] ELSE rws[i + 1]]

\* C12 (as stated): a DeleteRow that returns true had the cursor on a row,
\* removes that row and no other, keeps the rest in order and leaves the
\* cursor within the new bounds (at 0 on the Rowset it emptied); otherwise
\* (cursor out of range, or the DELETE rejected) it returns false and leaves
\* rows and cursor as they were.
C12_DeleteRowRemovesCursorRow ==
  [][last'.op = "DeleteRow"
       => IF last'.res = "true"
          THEN /\ loaded /\ OnRow(rows, pos)
               /\ rows' = WithoutRow(rows, pos)
               /\ ValidCursor(loaded', rows', pos')
          ELSE /\ last'.res = "false"
               /\ rows' = rows
               /\ pos' = pos]_vars

\* The DELETE was rejected: DeleteRow has faulted instead of returning.
C12_Witness ==
  /\ last.op = "DeleteRow"
  /\ last.res = "panic"
  /\ loaded
  /\ OnRow(rows, pos)
  /\ XRecord = GoNil

\* An update has just dispatched the after-update hook.
UpdateDispatched ==
  /\ last'.did = "Update"
  /\ last'.res = "true"
  /\ Len(stack') = Len(stack) + 1
  /\ stack'[Len(stack')].kind = "update"

\* The one-row cursor of every hook body that goes on executing shows the
\* row it showed before.
SnapshotsKept ==
  \A i \in 1..Len(stack) :
    i <= Len(stack') => stack'[i].xrec = stack[i].xrec

\* C13 (as stated): the after-update hook is handed a one-row cursor over
\* the refreshed row and a one-row cursor over the row as storage had it
\* before the update; no Table call made while the hook body runs changes
\* what the second cursor shows.
C13_HookCursorsOneRow ==
  [][/\ UpdateDispatched
          => /\ Len(rows') = 1
             /\ pos' = 0
             /\ rows'[1] = getRecordById(Cur', last'.id)
             /\ stack'[Len(stack')].xrec = getRecordById(Cur, last'.id)
     /\ SnapshotsKept]_vars

\* C13 (amended): the first thing the hook is handed is the Table itself,
\* its cursor on the refreshed row within the whole Rowset; the second is a
\* one-row cursor over the row as storage had it before the update, and no
\* Table call made while the hook body runs changes what it shows.
C13_HookSnapshotIndependent ==
  [][/\ UpdateDispatched
          => /\ OnRow(rows', pos')
             /\ rows' = [rows EXCEPT ![pos + 1] = getRecordById(Cur', last'.id)]
             /\ pos' = pos
             /\ stack'[Len(stack')].xrec = getRecordById(Cur, last'.id)
     /\ SnapshotsKept]_vars

\* Inside the after-update hook body of a two-row Table a nested update has
\* returned: storage holds b = 1, the snapshot still b = 0.
C13_Witness ==
  /\ last.op = "Update"
  /\ last.res = "true"
  /\ last.depth = 1
  /\ Len(stack) = 1
  /\ stack[1].kind = "update"
  /\ stack[1].xrec # GoNil
  /\ stack[1].xrec.id.v = last.id
  /\ stack[1].xrec.b = GoInt64(0)
  /\ store[last.id].b = 1
  /\ Len(rows) = 2

\* An after-update hook body dispatched by a Table other than tbl is being
\* executed.
DispatchOfAnother(st, tbl) ==
  \E i \in 1..Len(st) : st[i].kind = "update" /\ st[i].tbl # tbl

\* C14: an update that returns true on a Table with an after-update hook
\* set, called while the after-update hook of another Table is being
\* dispatched, writes its row to storage and starts no hook body.
C14_FlagIsProcessWide ==
  [][(/\ last'.op = "Update"
      /\ last'.res = "true"
      /\ DispatchOfAnother(stack, last'.tbl)
      /\ IF last'.tbl = "first" THEN hooks.update ELSE other.hooks.update)
       => /\ store'[last'.id] = UpdatedRow(store[last'.id], last'.fields)
          /\ Bodies(stack') = Bodies(stack)
          /\ afterUpdateRunning']_vars

\* Inside the first Table's after-update hook body an update on the second
\* Table, which has a hook of its own, has returned true: storage holds
\* b = 1 where the second Table's snapshot has b = 0, and the first Table's
\* body is the only one executing.
C14_Witness ==
  /\ last.op = "Update"
  /\ last.tbl = "second"
  /\ last.res = "true"
  /\ other.hooks.update
  /\ Len(stack) = 1
  /\ stack[1].kind = "update"
  /\ stack[1].tbl = "first"
  /\ other.XRecord # GoNil
  /\ other.XRecord.id.v = last.id
  /\ other.XRecord.b = GoInt64(0)
  /\ store[last.id].b = 1

\* C15 (as stated): an Insert, Update, DeleteRow or SaveField whose
\* statement the storage engine rejects returns false, records the error as
\* the last error and leaves every row of the Rowset and the cursor as they
\* were.
C15_RejectedStatementReturnsFalse ==
  [][(last'.op \in {"Insert", "Update", "DeleteRow", "SaveField"}
        /\ last'.rejected)
       => /\ last'.res = "false"
          /\ lastErrorText' # ""
          /\ rows' = rows
          /\ pos' = pos]_vars

\* SaveField's UPDATE was rejected: the call has faulted, no error is
\* recorded, and the cursor row holds the value that was not stored.
C15_Witness ==
  /\ last.op = "SaveField"
  /\ last.did = "Update"
  /\ last.rejected
  /\ last.res = "panic"
  /\ lastErrorText = ""
  /\ OnRow(rows, pos)
  /\ rows[pos + 1].id.t = "int64"
  /\ rows[pos + 1].b = GoString(<<"1">>)
  /\ store[rows[pos + 1].id.v].b = 0

\* C16 (as stated): every Find, FindByID, Insert, Update, DeleteRow and
\* SaveField clears the last error when it starts, so whenever one of them
\* returns true the last error is empty.
C16_SuccessLeavesNoError ==
  [][(last'.op \in {"Find", "FindByID", "Insert", "Update", "DeleteRow",
                    "SaveField"}
        /\ last'.res = "true")
       => lastErrorText' = ""]_vars

\* FindByID has returned true with the error of an earlier call still the
\* last error.
C16_Witness ==
  /\ last.op = "FindByID"
  /\ last.res = "true"
  /\ lastErrorText # ""
  /\ OnRow(rows, pos)
  /\ rows[pos + 1].id.v = last.arg.v

\* The call supplied a Time value that fails conversion as C17 describes (a
\* non-empty string of neither form, or one that fails parsing or the
\* consistency check), and no other supplied value fails.
TimeRefused(fields) ==
  /\ "t" \in DOMAIN fields
  /\ fields["t"].t = "string"
  /\ ~TimeToInternal(fields["t"], "TIME")[2]
  /\ \A k \in DOMAIN fields \ {"t"} :
       fieldUserFormatToInternalFormat(k, fields[k])[2]

\* C17: a Lua insert or update whose Time value fails to parse returns
\* false without aborting the script, and the error message is recorded as
\* the last error.
C17_TimeFailureIsDataError ==
  (last.op \in {"Insert", "Update"} /\ TimeRefused(last.fields))
    => (last.res = "false" /\ lastErrorText # "")

\* An insert of "99:15:00" (display form, no such hour) returned false and
\* left no last error; nothing was stored.
C17_Witness ==
  /\ last.op = "Insert"
  /\ TimeRefused(last.fields)
  /\ last.fields["t"] = GoString(<<"9", "9", ":", "1", "5", ":", "0", "0">>)
  /\ last.res = "false"
  /\ lastErrorText = ""
  /\ DOMAIN store = {}

\* C18: no createTable, alterTable or dropTable call naming the reserved
\* metadata table changes the database; each is rejected with a script
\* error (createTable also when asked to open the table if it exists, so
\* before existence is looked at).
C18_ReservedTableUntouched ==
  [][(last'.op \in {"CreateTable", "AlterTable", "DropTable"}
      /\ last'.field = SysMetaTable)
       => (last'.res = "panic" /\ db' = db)]_vars

\* dropTable("table_metadata") returned success: the metadata table is gone
\* from the database, the rows describing the other tables with it.
C18_Witness ==
  /\ last.op = "DropTable"
  /\ last.field = SysMetaTable
  /\ last.res = "true"
  /\ ~tableExists(db, SysMetaTable)
  /\ tableExists(db, ModelTable)
  /\ db.meta = <<>>

\* The part of C18 the code keeps: createTable and alterTable naming the
\* reserved table are rejected and change nothing.
ReservedCreateAlterRejected ==
  [][(last'.op \in {"CreateTable", "AlterTable"} /\ last'.field = SysMetaTable)
       => (last'.res = "panic" /\ db' = db)]_vars

\* The metadata rows of one field of one table.
MetadataOf(d, name, fieldName) ==
  SelectSeq(d.meta, LAMBDA m : m.TableName = name /\ m.FieldName = fieldName)

\* C19: a createTable that creates the table stores exactly one metadata
\* row for each declared field with a logical tag and none for a plain
\* Text, Integer or Float field.
C19_MetadataOnlyForTagged ==
  [][(last'.op = "CreateTable" /\ last'.res = "true"
      /\ ~tableExists(db, last'.field))
       => \A i \in DOMAIN last'.arg :
            Len(MetadataOf(db', last'.field, last'.arg[i].n)) =
              IF FieldTypes[last'.arg[i].t].LogicalType # "" THEN 1 ELSE 0]_vars

\* createTable("t2", "n::a;t::Integer") succeeded and table_metadata holds a
\* row for the plain Integer field a.
C19_Witness ==
  /\ last.op = "CreateTable"
  /\ last.res = "true"
  /\ last.field = "t2"
  /\ last.arg = <<[n |-> "a", t |-> "Integer"]>>
  /\ tableExists(db, "t2")
  /\ MetadataOf(db, "t2", "a") =
       <<[TableName |-> "t2", FieldName |-> "a", ActualType |-> "INTEGER",
          LogicalType |-> "", Temporary |-> FALSE]>>

\* What the clauses of an alterTable do to one field, taken in order:
\* "none" when no clause names it, else "drop" or the type of the last add.
LastTouch(clauses, f) ==
  LET RECURSIVE touch(_, _)
      touch(i, acc) ==
        IF i > Len(clauses) THEN acc
        ELSE touch(i + 1,
                   IF clauses[i].add = f THEN clauses[i].t
                   ELSE IF clauses[i].drop = f THEN "drop"
                   ELSE acc)
  IN touch(1, "none")

\* Every clause of the call is applied: a field whose last clause adds it
\* is a column of the declared type with exactly one metadata row, a field
\* whose last clause drops it is no column and has no metadata row, and
\* nothing else changed.
AllApplied(d, d2, name, clauses) ==
  /\ DOMAIN d2.tables = DOMAIN d.tables
  /\ \A n \in DOMAIN d.tables \ {name} : d2.tables[n] = d.tables[n]
  /\ \A m \in DOMAIN d.tables \ {name}, f \in DDLFields \cup Columns :
       MetadataOf(d2, m, f) = MetadataOf(d, m, f)
  /\ \A f \in DDLFields :
       CASE LastTouch(clauses, f) = "none" ->
              /\ (f \in DOMAIN d2.tables[name]) = (f \in DOMAIN d.tables[name])
              /\ f \in DOMAIN d.tables[name]
                   => d2.tables[name][f] = d.tables[name][f]
              /\ MetadataOf(d2, name, f) = MetadataOf(d, name, f)
         [] LastTouch(clauses, f) = "drop" ->
              /\ f \notin DOMAIN d2.tables[name]
              /\ MetadataOf(d2, name, f) = <<>>
         [] OTHER ->
              /\ f \in DOMAIN d2.tables[name]
              /\ d2.tables[name][f] = FieldTypes[LastTouch(clauses, f)].ActualType
              /\ MetadataOf(d2, name, f) =
                   <<MetadataRow(name, f, FieldTypes[LastTouch(clauses, f)],
                                 FALSE)>>

C20_WitnessApplied ==
  /\ last.op = "AlterTable"
  /\ last.res = "true"
  /\ last.arg = <<[drop |-> "", add |-> "a", t |-> "Boolean"],
                  [drop |-> "", add |-> "b", t |-> "Boolean"]>>
  /\ {"a", "b"} \subseteq DOMAIN db.tables["t2"]

NameExists(d, name) == tableExists(d, name) \/ name \in DOMAIN d.temp

DeclaresUnknownType(fields) ==
  \E i \in DOMAIN fields : HasName(fields[i]) /\ ~KnownType(fields[i].t)

\* C23: createTable (permanent or temporary) on a name that exists raises
\* when openIfExists is false and returns the table when it is true, and a
\* createTable of a new name that declares an unknown type raises; in each
\* case no table is created or altered and no metadata row is added.  (The
\* reserved name, which is refused whatever openIfExists, is C18's.)
C23_ExistingOrUnknownLeavesAll ==
  [][(last'.op \in {"CreateTable", "CreateTableTemp"}
      /\ last'.field # SysMetaTable
      /\ (NameExists(db, last'.field) \/ DeclaresUnknownType(last'.arg)))
       => /\ db' = db
          /\ last'.res = IF NameExists(db, last'.field)
                            /\ last'.value = GoBool(TRUE)
                         THEN "true" ELSE "panic"]_vars

\* The same for permanent tables only.
PermanentExistingOrUnknownLeavesAll ==
  [][(last'.op = "CreateTable"
      /\ last'.field # SysMetaTable
      /\ (tableExists(db, last'.field) \/ DeclaresUnknownType(last'.arg)))
       => /\ db' = db
          /\ last'.res = IF tableExists(db, last'.field)
                            /\ last'.value = GoBool(TRUE)
                         THEN "true" ELSE "panic"]_vars

\* createTableTemp("t3", "n::a;t::Boolean", false) returned a second time on
\* the same connection: t3 exists and table_metadata holds two rows for its
\* field a.
C23_Witness ==
  /\ last.op = "CreateTableTemp"
  /\ last.res = "true"
  /\ last.value = GoBool(FALSE)
  /\ last.field = "t3"
  /\ last.arg = <<[n |-> "a", t |-> "Boolean"]>>
  /\ "t3" \in DOMAIN db.temp
  /\ Len(MetadataOf([meta |-> last.meta], "t3", "a")) = 1
  /\ Len(MetadataOf(db, "t3", "a")) = 2

\* The filter of C24, and the compiled fragment it stands for.
Year2024Filter ==
  <<">", "=", "0", "1", ".", "0", "1", ".", "2", "0", "2", "4", "&", "<", "=", "3", "1", ".", "1", "2", ".", "2", "0", "2", "4">>

\* C24: with the display date template dd.mm.yyyy, find() with the filter
\* ">=01.01.2024&<=31.12.2024" on the Date field of a table whose rows hold
\* 20231231, 20240615 and 20250101 selects exactly the row 20240615.
C24_FilterSelectsYear2024 ==
  (last.op = "FindDates" /\ last.value = GoString(Year2024Filter)
   /\ formats["DATE"] = DateFormat)
    => last.out = {id \in DOMAIN DatesStore :
                     DatesStore[id].d = <<"2", "0", "2", "4", "0", "6", "1", "5">>}

\* That find() returned false with no row selected: the clauses were
\* compiled as d > '=01.01.2024' and d < '=31.12.2024'.
C24_Witness ==
  /\ last.op = "FindDates"
  /\ last.value = GoString(Year2024Filter)
  /\ formats["DATE"] = DateFormat
  /\ last.res = "false"
  /\ last.out = {}
  /\ parseFilterByType(formats, "d", Year2024Filter, "DATE")
       = <<Comparison("d", ">", Quoted(<<"=", "0", "1", ".", "0", "1", ".", "2", "0", "2", "4">>)),
           Connective("AND"),
           Comparison("d", "<", Quoted(<<"=", "3", "1", ".", "1", "2", ".", "2", "0", "2", "4">>))>>

\* The comparison prefixes as the filter grammar lists them, the longer
\* before the shorter, and the operator of each.
GrammarPrefixes ==
  << <<"=", "=">>, <<"~", "=">>, <<">", "=">>, <<"<", "=">>, <<">">>, <<"<">> >>
GrammarOperator == <<"=", "<>", ">=", "<=", ">", "<">>
GrammarPrefix(v) ==
  IF \E i \in DOMAIN GrammarPrefixes : HasPrefix(v, GrammarPrefixes[i])
  THEN CHOOSE i \in DOMAIN GrammarPrefixes :
         /\ HasPrefix(v, GrammarPrefixes[i])
         /\ \A j \in 1..(i - 1) : ~HasPrefix(v, GrammarPrefixes[j])
  ELSE 0

\* What the grammar says a clause compiles to: the operator of its prefix
\* on the operand left once the whole prefix is removed; without a prefix
\* equality, a pattern match for a text value with a wildcard.
GrammarOperand(v, p) ==
  IF p = 0 THEN v ELSE TrimSpace(TrimPrefix(v, GrammarPrefixes[p]))
GrammarClauseOf(fm, field, p, operand, fType) ==
  Comparison(field,
             IF p # 0 THEN GrammarOperator[p]
             ELSE IF fType = "TEXT"
                     /\ (Contains(operand, "%") \/ Contains(operand, "_"))
             THEN "LIKE" ELSE "=",
             ClauseOperand(fm, operand, fType))
GrammarClause(fm, field, v, fType) ==
  GrammarClauseOf(fm, field, GrammarPrefix(v),
                  GrammarOperand(v, GrammarPrefix(v)), fType)

IsComparison(tok) == tok.k = "cmp"
NonEmpty(piece) == Len(TrimSpace(piece)) > 0

\* The comparisons the grammar gives for the clauses of a filter.
GrammarClauses(fm, field, clauses, fType) ==
  [i \in DOMAIN clauses |->
     GrammarClause(fm, field, TrimSpace(clauses[i]), fType)]

\* C25: every clause of a compiled filter expression is the comparison its
\* prefix stands for (==, ~=, >=, <=, >, < give =, <>, >=, <=, >, <) on the
\* operand left after the whole prefix; a clause without prefix is an
\* equality, or a pattern match on a text field whose value has a wildcard.
C25_PrefixCompilesToOperator ==
  (last.op = "parseFilterByType" /\ last.value.s # EmptyLiteral)
    => SelectSeq(last.out, IsComparison)
         = GrammarClauses(formats, "f",
                          SelectSeq(Split(last.value.s), NonEmpty), last.mode)

\* The clause ">=5" of an Integer field compiled as f > =5.
C25_Witness ==
  /\ last.op = "parseFilterByType"
  /\ last.mode = "INTEGER"
  /\ last.value = GoString(<<">", "=", "5">>)
  /\ last.out = <<Comparison("f", ">", <<"=", "5">>)>>

\* C26: for a field of every logical type the filter expression '' compiles
\* to the one predicate field = '', the operand not converted.
C26_EmptyLiteralIsFieldEmpty ==
  (last.op = "parseFilterByType" /\ last.value = GoString(EmptyLiteral))
    => last.out = <<Comparison("f", "=", EmptyLiteral)>>

\* The filter '' of a Boolean field compiled as f = '0'.
C26_Witness ==
  /\ last.op = "parseFilterByType"
  /\ last.mode = "BOOLEAN"
  /\ last.value = GoString(EmptyLiteral)
  /\ last.out = <<Comparison("f", "=", Quoted(<<"0">>))>>

\* The Table with "5" as its filter on n instead of the one it has.
WithBareFive(s) == [s EXCEPT !.filteredFields = [k \in {"n"} |-> <<"5">>]]
QuotedFiveFilter == <<"=", "=", "'", "5", "'">>

SameFind(r1, r2) ==
  /\ r1.res = r2.res
  /\ r1.s.rows = r2.s.rows
  /\ r1.s.pos = r2.s.pos
  /\ r1.s.loaded = r2.s.loaded
  /\ r1.s.lastErrorText = r2.s.lastErrorText

\* C27: on the Integer field n, find() with the filter "=='5'" gives the
\* result and the Rowset that find() with the filter "5" gives, whatever
\* rows the table holds.
C27_QuotedFiveSameAsFive ==
  [][(last'.op = "Find" /\ rangeFilter = <<>>
      /\ DOMAIN filteredFields = {"n"}
      /\ filteredFields["n"] = QuotedFiveFilter)
       => \A env \in Envs(Cur) :
            SameFind(Find(Cur, env), Find(WithBareFive(Cur), env))]_vars

\* find() with "=='5'" returned the one row of two whose n is 5.
C27_Witness ==
  /\ last.op = "Find"
  /\ last.res = "true"
  /\ rangeFilter = <<>>
  /\ DOMAIN filteredFields = {"n"}
  /\ filteredFields["n"] = QuotedFiveFilter
  /\ store[1].n = 0
  /\ store[2].n = 5
  /\ Len(rows) = 1
  /\ rows[1].id = GoInt64(2)

\* A canonical value that denotes a date, a time of day, or both.
ValidDate(x) ==
  /\ Len(x) = 8
  /\ HasDigits(x, 8)
  /\ Atoi(SubSeq(x, 5, 6)) \in 1..12
  /\ Atoi(SubSeq(x, 7, 8)) >= 1
  /\ Atoi(SubSeq(x, 7, 8)) <= daysIn(Atoi(SubSeq(x, 5, 6)), Atoi(SubSeq(x, 1, 4)))
ValidTime(x) ==
  /\ Len(x) = 6
  /\ HasDigits(x, 6)
  /\ Atoi(SubSeq(x, 1, 2)) < 24
  /\ Atoi(SubSeq(x, 3, 4)) < 60
  /\ Atoi(SubSeq(x, 5, 6)) < 60
ValidCanonical(x, mode) ==
  CASE mode = "DATE" -> ValidDate(x)
    [] mode = "TIME" -> ValidTime(x)
    [] mode = "DATETIME" ->
         Len(x) = 14 /\ ValidDate(SubSeq(x, 1, 8)) /\ ValidTime(SubSeq(x, 9, 14))

\* A valid canonical value was formatted for display, and the result
\* formatted back is the value.
RoundTrips(call, fm) ==
  /\ call.res = "true"
  /\ FormatDateTime(fm, call.out, call.mode, ToInternalFormat)
       = <<call.value.s, TRUE>>

\* C28: under the active display template of each of Date, Time and
\* DateTime, a valid non-empty canonical value formatted for display and
\* back is the value again, and the empty string is formatted to the empty
\* string without error in both directions.
C28_RoundTrip ==
  last.op = "FormatDateTime"
    => /\ (last.value.s = <<>> => last.res = "true" /\ last.out = <<>>)
       /\ (last.arg = ToUserFormat /\ ValidCanonical(last.value.s, last.mode))
            => RoundTrips(last, formats)

\* The same under the templates the process starts with.
RoundTripUnderStartFormats ==
  (last.op = "FormatDateTime" /\ formats = StartFormats) => C28_RoundTrip

\* SetDateFormat("ddd.MM.yyyyy") was accepted, and formatting the canonical
\* date 20240615 for display gave an error.
C28_Witness ==
  /\ last.op = "FormatDateTime"
  /\ last.mode = "DATE"
  /\ last.arg = ToUserFormat
  /\ last.value = GoString(<<"2", "0", "2", "4", "0", "6", "1", "5">>)
  /\ formats["DATE"] = <<"d", "d", "d", ".", "M", "M", ".", "y", "y", "y", "y", "y">>
  /\ last.res = "error"

\* The letter c stands in the template as one run of n letters, n in lens.
Positions(df, c) == {i \in DOMAIN df : df[i] = c}
OneRun(df, c, lens) ==
  /\ Cardinality(Positions(df, c)) \in lens
  /\ \A i, j \in Positions(df, c) :
       \A k \in i..j : k \in Positions(df, c)

\* A well formed display template of a type: every token the type requires
\* stands in it once (yyyy or yy, mm, dd for a date; hh, ii, ss for a time),
\* no token of another type and no other letter stands in it, and the
\* separators are among . / : - and the space.
DateLetters == {"y", "m", "d"}
TimeLetters == {"h", "i", "s"}
Separators == {".", "/", ":", " ", "-"}
LettersOf(mode) ==
  CASE mode = "DATE" -> DateLetters
    [] mode = "TIME" -> TimeLetters
    [] mode = "DATETIME" -> DateLetters \cup TimeLetters
WellFormedTemplate(df, mode) ==
  /\ \A i \in DOMAIN df : df[i] \in LettersOf(mode) \cup Separators
  /\ \A c \in LettersOf(mode) :
       OneRun(df, c, IF c = "y" THEN {2, 4} ELSE {2})

SetFormatOps == {"SetDateFormat", "SetTimeFormat", "SetDateTimeFormat"}

\* C29: setting a date, time or date-time display template installs it
\* exactly when it is well formed; a malformed one raises an error and the
\* template set before stays.
C29_InstalledIffWellFormed ==
  [][last'.op \in SetFormatOps
       => IF WellFormedTemplate(last'.value.s, last'.mode)
          THEN /\ last'.res = "true"
               /\ formats' = [formats EXCEPT ![last'.mode] = last'.value.s]
          ELSE /\ last'.res = "panic"
               /\ formats' = formats]_vars

\* A template the check refuses raises and the template set before stays.
RefusedTemplateStays ==
  [][(last'.op \in SetFormatOps
      /\ ~checkIfDTFormatIsValid(last'.value.s, last'.mode))
       => /\ last'.res = "panic"
          /\ formats' = formats]_vars

\* SetDateFormat("dd.mm.yyyy") raised, after a template had been installed
\* by an earlier call.
C29_Witness ==
  /\ last.op = "SetDateFormat"
  /\ last.value = GoString(DateFormat)
  /\ last.res = "panic"
  /\ formats["DATE"] = <<"d", "d", "d", ".", "m", "m", ".", "y", "y", "y", "y", "y">>

\* The Table has no row under its cursor: no Rowset, an empty one, or the
\* cursor off it.
NoCurrentRow == ~loaded \/ Len(rows) = 0 \/ pos < 0 \/ pos >= Len(rows)

\* C30: reading a field returns the default value of its column whenever
\* the Table has no rows or the cursor is out of range, on a Table without
\* Rowset and on one whose Rowset is empty after a find or a delete alike.
C30_DefaultWithoutRow ==
  [][(last'.op = "GetField" /\ NoCurrentRow)
       => /\ last'.res = "true"
          /\ last'.arg = defaultFieldValues[last'.field]]_vars

\* The same for a Table that has a Rowset.
DefaultOnEmptyRowset ==
  [][(last'.op = "GetField" /\ loaded /\ NoCurrentRow)
       => /\ last'.res = "true"
          /\ last'.arg = defaultFieldValues[last'.field]]_vars

EmptiedByDelete ==
  [][(last'.op = "DeleteRow" /\ last'.res = "true" /\ Len(rows') = 0)
       => \A key \in Columns :
            GetField(Cur', key) = defaultFieldValues[key]]_vars

\* The field n read on the Table as OpenTable leaves it: a script error.
C30_Witness ==
  /\ last.op = "GetField"
  /\ last.field = "n"
  /\ ~loaded
  /\ last.res = "panic"
  /\ last.arg = GoNil

\* The row under the cursor is a persisted one: it holds what storage holds
\* for its id (no field assigned since it was fetched).
OnPersistedRow ==
  /\ loaded
  /\ pos >= 0
  /\ pos < Len(rows)
  /\ rows[pos + 1] # GoNil
  /\ rows[pos + 1].id.t = "int64"
  /\ rows[pos + 1] = getRecordById(Cur, rows[pos + 1].id.v)

\* The display form of a stored time under the template hh:ii:ss.
DisplayTime(stored) ==
  IF Len(stored) = 6
  THEN <<stored[1], stored[2], ":", stored[3], stored[4], ":",
         stored[5], stored[6]>>
  ELSE stored

\* What reading a column of a stored row shows: "true" or "false" for the
\* Boolean column, the display form for the Time column, the stored number
\* for the others.
StoredDisplay(field, stored) ==
  CASE field = "b" ->
         GoString(IF stored.b = 1 THEN <<"t", "r", "u", "e">>
                  ELSE <<"f", "a", "l", "s", "e">>)
    [] field = "t" -> GoString(DisplayTime(stored.t))
    [] field = "n" -> GoInt64(stored.n)
    [] OTHER -> GoInt64(0)

ReadsDisplayForm(fields) ==
  (last'.op = "GetField" /\ last'.field \in fields /\ OnPersistedRow)
    => /\ last'.res = "true"
       /\ last'.arg = StoredDisplay(last'.field, store[rows[pos + 1].id.v])

\* C31: with the cursor on a persisted row, reading a field returns the
\* display form of the stored value for the Time and the Boolean column
\* ("true" or "false" for a Boolean stored as 1 or 0) and the stored value
\* for the other columns.
C31_GetFieldDisplayForm == [][ReadsDisplayForm(DataColumns)]_vars

\* The same for the columns that are not Boolean.
GetFieldDisplayFormOfOthers == [][ReadsDisplayForm({"n", "t"})]_vars

\* The Boolean column read on a fetched row that stores 1: the integer 1.
C31_Witness ==
  /\ last.op = "GetField"
  /\ last.field = "b"
  /\ OnPersistedRow
  /\ store[rows[pos + 1].id.v].b = 1
  /\ last.res = "true"
  /\ last.arg = GoInt64(1)

\* The Time column read on a fetched row that stores 101500: "10:15:00".
TimeReadWitness ==
  /\ last.op = "GetField"
  /\ last.field = "t"
  /\ OnPersistedRow
  /\ last.arg = GoString(<<"1", "0", ":", "1", "5", ":", "0", "0">>)

\* The number of after-insert hook bodies being executed.
InsertFrames(st) == Cardinality({i \in 1..Len(st) : st[i].kind = "insert"})

\* The row of that id as storage holds it is in the Rowset.
InRowset(s, id) ==
  /\ id \in DOMAIN s.store
  /\ \E i \in 1..Len(s.rows) : s.rows[i] = getRecordById(s, id)

\* C32: with an after-insert hook set, an insert that succeeds starts the
\* hook body exactly once, on the Table itself, with the new row in storage
\* and in the Rowset; an insert that fails starts none.
C32_AfterInsertHookOnce ==
  [][(last'.op = "Insert" /\ hooks.insert)
       => IF last'.res = "true"
          THEN /\ Len(stack') = Len(stack) + 1
               /\ InsertFrames(stack') = InsertFrames(stack) + 1
               /\ stack'[Len(stack')].kind = "insert"
               /\ stack'[Len(stack')].tbl = "first"
               /\ stack'[Len(stack')].xrec = GoNil
               /\ last'.id \notin DOMAIN store
               /\ InRowset(Cur', last'.id)
          ELSE /\ Len(stack') <= Len(stack)
               /\ InsertFrames(stack') <= InsertFrames(stack)]_vars

\* An insert called by the body of the after-update hook has started the
\* after-insert hook body.
C32_Witness ==
  /\ last.op = "Insert"
  /\ last.res = "true"
  /\ last.depth = 1
  /\ Len(stack) = 2
  /\ stack[1].kind = "update"
  /\ stack[2].kind = "insert"
  /\ InRowset(Cur, last.id)

\* With a hook set, an insert the storage engine rejected has started none.
FailedInsertWitness ==
  /\ last.op = "Insert"
  /\ last.res = "false"
  /\ hooks.insert
  /\ stack = <<>>

\* The number of after-delete hook bodies being executed.
DeleteFrames(st) == Cardinality({i \in 1..Len(st) : st[i].kind = "delete"})

\* The cursor is on a row that storage holds.
OnStoredRow ==
  /\ loaded
  /\ pos >= 0
  /\ pos < Len(rows)
  /\ rows[pos + 1].id.v \in DOMAIN store

\* C33: with an after-delete hook set, the deletion of a stored row that
\* succeeds starts the hook body exactly once, on a one-row cursor over the
\* row as storage held it before the DELETE; a deletion that fails starts
\* none and leaves the row stored.
C33_AfterDeleteHookSnapshot ==
  [][(last'.op = "DeleteRow" /\ hooks.delete /\ OnStoredRow)
       => IF last'.res = "true"
          THEN /\ Len(stack') = Len(stack) + 1
               /\ DeleteFrames(stack') = DeleteFrames(stack) + 1
               /\ stack'[Len(stack')].kind = "delete"
               /\ stack'[Len(stack')].xrec
                    = getRecordById(Cur, rows[pos + 1].id.v)
               /\ rows[pos + 1].id.v \notin DOMAIN store'
          ELSE /\ Len(stack') <= Len(stack)
               /\ DeleteFrames(stack') = 0
               /\ store' = store]_vars

\* The after-delete hook body has started on the snapshot of a row that
\* held 1 in b and is no longer stored.
C33_Witness ==
  /\ last.op = "DeleteRow"
  /\ last.res = "true"
  /\ Len(stack) = 1
  /\ stack[1].kind = "delete"
  /\ stack[1].xrec # GoNil
  /\ stack[1].xrec.b = GoInt64(1)
  /\ stack[1].xrec.id.v \notin DOMAIN store

\* With the hook set the storage engine rejected the DELETE: no hook body.
FailedDeleteWitness ==
  /\ last.op = "DeleteRow"
  /\ last.res # "true"
  /\ last.rejected
  /\ hooks.delete
  /\ stack = <<>>

\* The positions of the non-empty clauses of a filter expression, in order.
ClausePositions(filter) ==
  SelectSeq([i \in 1..Len(Split(filter)) |-> i],
            LAMBDA i : NonEmpty(Split(filter)[i]))

IsConnective(tok) == tok.k = "conn"

\* The connective a delimiter stands for.
ConnectiveOf(d) == Connective(IF d = "&" THEN "AND" ELSE "OR")

\* A fragment of n comparisons joined by n - 1 connectives: comparisons at
\* the odd places, connectives at the even ones, a comparison first and
\* last.
Alternates(out, n) ==
  /\ Len(out) = IF n = 0 THEN 0 ELSE 2 * n - 1
  /\ \A i \in 1..Len(out) :
       IF i % 2 = 1 THEN IsComparison(out[i]) ELSE IsConnective(out[i])

\* Comparison j is the one of the j-th non-empty clause, and connective j
\* stands for a delimiter written between clause j and clause j + 1.
InOrderOfAppearance(fm, out, filter, fType, at) ==
  /\ \A j \in 1..Len(at) :
       2 * j - 1 <= Len(out)
         => out[2 * j - 1]
              = CompileClause(fm, "f", TrimSpace(Split(filter)[at[j]]), fType)
  /\ \A j \in 1..(Len(at) - 1) :
       2 * j <= Len(out)
         => \E d \in at[j]..(at[j + 1] - 1) :
              out[2 * j] = ConnectiveOf(FindAllDelims(filter)[d])

\* The expression is compiled clause by clause: its field type is one the
\* compiler knows, it is not the literal '' and the display template of a
\* time type gives a pattern.
CompiledByClauses ==
  /\ last.op = "parseFilterByType"
  /\ last.value.s # EmptyLiteral
  /\ last.mode \in TimeTypes => TemplateToRegexp(formats[last.mode]) # <<>>

WellJoined ==
  /\ Alternates(last.out, Len(ClausePositions(last.value.s)))
  /\ InOrderOfAppearance(formats, last.out, last.value.s, last.mode,
                         ClausePositions(last.value.s))

\* C34: a filter expression with n non-empty clauses compiles to exactly n
\* comparisons in the order of the clauses, joined by exactly n - 1
\* connectives (AND for &, OR for |, in order of appearance); the fragment
\* never begins or ends with a connective, also when the expression has an
\* empty clause or a leading or trailing delimiter.
C34_ClausesJoinedByConnectives == CompiledByClauses => WellJoined

\* The same for the expressions whose last clause is not empty.
JoinedWhenLastClauseNotEmpty ==
  (CompiledByClauses
     /\ NonEmpty(Split(last.value.s)[Len(Split(last.value.s))]))
    => WellJoined

\* The expression "5&" of an Integer field compiled as f = 5 AND.
C34_Witness ==
  /\ last.op = "parseFilterByType"
  /\ last.mode = "INTEGER"
  /\ last.value = GoString(<<"5", "&">>)
  /\ last.out = <<Comparison("f", "=", <<"5">>), Connective("AND")>>

\* An empty clause in the middle and a leading delimiter leave no
\* connective behind.
EmptyClauseWitness ==
  /\ last.op = "parseFilterByType"
  /\ last.mode = "INTEGER"
  /\ last.value = GoString(<<"5", "|", "|", "7">>)
  /\ last.out = <<Comparison("f", "=", <<"5">>), Connective("OR"),
                  Comparison("f", "=", <<"7">>)>>

\* C35: setting a per-field filter leaves the range predicate as it was, so
\* that SetRangeFilter followed by SetFilter leaves the Table as SetFilter
\* followed by SetRangeFilter does and Find applies both.
C35_SetFilterKeepsRange ==
  [][last'.op = "SetFilter"
       => /\ rangeFilter' = rangeFilter
          /\ filterByField' = filterByField
          /\ \A min \in 1..MaxId, max \in 1..MaxId :
               SetFilter(SetRangeFilter(Cur, PrimaryKeyField, min, max),
                         last'.field, last'.value.s)
                 = SetRangeFilter(SetFilter(Cur, last'.field, last'.value.s),
                                  PrimaryKeyField, min, max)]_vars

\* The other way round: setting the range leaves the per-field filters.
SetRangeFilterKeepsFilters ==
  [][last'.op = "SetRangeFilter" => filteredFields' = filteredFields]_vars

\* A range was set on the primary key and the SetFilter that followed has
\* left no range.
C35_Witness ==
  /\ last.op = "SetFilter"
  /\ last.field = "n"
  /\ filterByField = PrimaryKeyField
  /\ rangeFilter = <<>>

\* Find after the two calls (range 1..1, then a filter every row
\* satisfies): the row of id 2 is fetched.
RangeLostWitness ==
  /\ last.op = "Find"
  /\ lastErrorText = ""
  /\ filterByField = PrimaryKeyField
  /\ rangeFilter = <<>>
  /\ filteredFields = [k \in {"n"} |-> <<>>]
  /\ \E i \in 1..Len(rows) : rows[i].id.v = 2

\* The cursor and CRUD operations of a script and of the browse editor.
CursorOps == {"Next", "Prev", "Insert", "Update", "SaveField", "DeleteRow"}

\* Every row storage gained is in the Rowset.
NewRowsInRowset ==
  \A id \in DOMAIN store' \ DOMAIN store : loaded' /\ InRowset(Cur', id)

\* C36: every cursor and CRUD operation called on a Table that has no
\* Rowset returns true or false without faulting, and an insert leaves no
\* row in storage that is missing from the Rowset.
C36_DefinedWhenUnloaded ==
  [][(last'.op \in CursorOps /\ ~loaded)
       => /\ last'.res \in {"true", "false"}
          /\ NewRowsInRowset]_vars

\* The operations that test for the Rowset: SaveField and DeleteRow.
GuardedWhenUnloaded ==
  [][(last'.op \in {"SaveField", "DeleteRow"} /\ ~loaded)
       => /\ last'.res = "false"
          /\ UNCHANGED <<store, loaded, rows, pos>>]_vars

\* Insert on the Table as OpenTable leaves it has faulted with the row
\* stored and no Rowset.
C36_Witness ==
  /\ last.op = "Insert"
  /\ last.res = "panic"
  /\ ~loaded
  /\ rows = <<>>
  /\ DOMAIN store = {1}
  /\ nextId = 2

\* Next on the Table as OpenTable leaves it has faulted.
NextUnloadedWitness ==
  /\ last.op = "Next"
  /\ last.res = "panic"
  /\ ~loaded
  /\ DOMAIN store = {}

\* The number of hook bodies of one kind being executed.
FramesOf(st, kind) == Cardinality({i \in 1..Len(st) : st[i].kind = kind})

\* C37: a hook does not re-trigger itself: at no time are two bodies of the
\* same hook kind executing, for the after-insert and the after-delete hook
\* as for the after-update hook.
C37_NoHookReentry ==
  [][\A kind \in {"insert", "update", "delete"} :
       FramesOf(stack', kind) <= 1]_vars

\* The same for the after-update and the after-delete hook alone.
NoUpdateOrDeleteReentry ==
  [][\A kind \in {"update", "delete"} : FramesOf(stack', kind) <= 1]_vars

\* An insert made by the after-insert hook body has started the hook body
\* again.
C37_Witness ==
  /\ last.op = "Insert"
  /\ last.res = "true"
  /\ last.depth = 1
  /\ Len(stack) = 2
  /\ stack[1].kind = "insert"
  /\ stack[2].kind = "insert"

\* Every insert a hook body makes goes as deep as the bound on the bodies
\* being executed lets it.
DeepestInsertWitness ==
  /\ last.op = "Insert"
  /\ Len(stack) = MaxDepth
  /\ \A i \in 1..MaxDepth : stack[i].kind = "insert"

\* A script that registers hook names, functions or not, changes them, and
\* finds, assigns, updates and inserts, in the main script and in the hook
\* bodies.
NextDispatch ==
  \/ SetOnAfterNamed
  \/ LuaFind
  \/ LuaSetField(TextInputs)
  \/ LuaUpdate
  \/ LuaInsert
  \/ HookReturn

SpecDispatch == Init /\ [][NextDispatch]_vars

\* An update the main script makes with an after-update hook set whose name
\* is a Lua function.
IndependentUpdate ==
  /\ last'.op = "Update"
  /\ last'.res = "true"
  /\ stack = <<>>
  /\ hooks.update
  /\ isFunction.update

\* C38: the after-update flag is set exactly while an outermost after-update
\* hook body is executing: every exit of the dispatch (the body returning,
\* the body raising an error, the hook name being no function, a nested
\* dispatch being suppressed) leaves it cleared once no body is executing,
\* so that the next update of the main script with a hook set dispatches.
C38_FlagClearedOnEveryExit ==
  [][/\ afterUpdateRunning' = (FramesOf(stack', "update") = 1)
     /\ FramesOf(stack', "update") <= 1
     /\ IndependentUpdate
          => /\ Len(stack') = 1
             /\ stack'[1].kind = "update"]_vars

\* An update of the main script has started the hook body and set the flag.
DispatchedWitness ==
  /\ last.op = "Update"
  /\ last.res = "true"
  /\ last.depth = 0
  /\ Len(stack) = 1
  /\ stack[1].kind = "update"
  /\ afterUpdateRunning

\* The outermost after-update body has returned: no body is executing and
\* the flag is clear.
ReturnedWitness ==
  /\ last.op = "HookReturn"
  /\ last.field = "update"
  /\ stack = <<>>
  /\ ~afterUpdateRunning

\* The update of a main script whose hook name is no function: a script
\* error, the row written, the flag clear.
C38_Witness ==
  /\ last.op = "Update"
  /\ last.res = "panic"
  /\ ~last.rejected
  /\ hooks.update
  /\ ~isFunction.update
  /\ ~afterUpdateRunning
  /\ stack = <<>>
  /\ loaded
  /\ XRecord # GoNil
  /\ pos < Len(rows)
  /\ rows[pos + 1] = getRecordById(Cur, XRecord.id.v)
  /\ rows[pos + 1].b # XRecord.b

\* An update made by the hook body was rejected: the error has ended the
\* body and the flag is clear.
HookErrorWitness ==
  /\ last.op = "Update"
  /\ last.res = "panic"
  /\ last.rejected
  /\ last.depth = 1
  /\ ~afterUpdateRunning
  /\ stack = <<>>

\* An update made by the hook body has returned true without a dispatch.
SuppressedWitness ==
  /\ last.op = "Update"
  /\ last.res = "true"
  /\ last.depth = 1
  /\ Len(stack) = 1
  /\ stack[1].kind = "update"
  /\ afterUpdateRunning

\* What the call meets when the storage engine accepts the statement: the
\* orders in which the filteredFields map may be iterated.
AcceptingEnvs(s) == {e \in Envs(s) : ~e.fail}

\* Find gives the same result, Rowset, cursor and error text whatever the
\* order in which the per-field filters are combined.
SameInEveryOrder(s) ==
  \A e1 \in AcceptingEnvs(s), e2 \in AcceptingEnvs(s) :
    SameFind(Find(s, e1), Find(s, e2))

HasOr(filter) == \E i \in 1..Len(filter) : filter[i] = "|"

\* C39: Find is deterministic: for the same stored rows, range predicate,
\* per-field filters (two or more fields filtered, "|" allowed in the
\* filters) and order clause it produces the same Rowset, whatever the
\* order in which the per-field filters are combined.
C39_FindDeterministic ==
  [][last'.op = "Find" => SameInEveryOrder(Cur)]_vars

\* The same when no filter has "|" in it.
FindDeterministicWithoutOr ==
  [][(last'.op = "Find"
        /\ \A k \in DOMAIN filteredFields : ~HasOr(filteredFields[k]))
       => SameInEveryOrder(Cur)]_vars

\* Find was called with the filters "0|1" on n and "1" on b over rows for
\* which the two orders of combination select different rows.
C39_Witness ==
  /\ last.op = "Find"
  /\ lastErrorText = ""
  /\ DOMAIN filteredFields = {"n", "b"}
  /\ filteredFields["n"] = <<"0", "|", "1">>
  /\ filteredFields["b"] = <<"1">>
  /\ rangeFilter = <<>>
  /\ \E e1 \in AcceptingEnvs(Cur), e2 \in AcceptingEnvs(Cur) :
       Find(Cur, e1).s.rows # Find(Cur, e2).s.rows

\* A script that sets filters on the column n and on x, a name that is no
\* column of the table and so has no recorded type, and calls Find.
UnknownField == "x"
UnknownFilterFields == {"n", UnknownField}
UnknownFilters == {<<>>, <<"1">>}

NextUnknown ==
  \/ LuaSetFilterOf(UnknownFilterFields, UnknownFilters)
  \/ LuaFind

SpecUnknown == InitFind /\ [][NextUnknown]_vars

\* The fields with a non-empty filter whose type cannot be resolved.
Unresolved(s) ==
  {k \in DOMAIN s.filteredFields :
     Len(s.filteredFields[k]) > 0 /\ GetFieldType(k) = ""}

\* The Table with the filters on those fields absent.
WithoutFilters(s, K) ==
  [s EXCEPT !.filteredFields =
     [k \in DOMAIN s.filteredFields \ K |-> s.filteredFields[k]]]

\* What Find has left is what a Find with those filters absent leaves.
AsIfAbsent(s, K) ==
  \E e \in AcceptingEnvs(WithoutFilters(s, K)) :
    /\ last'.res = Find(WithoutFilters(s, K), e).res
    /\ rows' = Find(WithoutFilters(s, K), e).s.rows
    /\ pos' = Find(WithoutFilters(s, K), e).s.pos
    /\ lastErrorText' = Find(WithoutFilters(s, K), e).s.lastErrorText

\* C40: Find never silently ignores a non-empty filter: when a filter is
\* set on a field whose type cannot be resolved, Find reports an error or
\* at least does not leave the rows a find without that filter leaves.
C40_UnresolvedFilterNotIgnored ==
  [][(last'.op = "Find" /\ Unresolved(Cur) # {})
       => \/ lastErrorText' # ""
          \/ ~AsIfAbsent(Cur, Unresolved(Cur))]_vars

\* Find with the filter "1" on x as the only filter has fetched every row
\* and recorded no error.
C40_Witness ==
  /\ last.op = "Find"
  /\ last.res = "true"
  /\ lastErrorText = ""
  /\ DOMAIN filteredFields = {UnknownField}
  /\ filteredFields[UnknownField] = <<"1">>
  /\ Len(rows) = MaxId
  /\ \A i \in 1..Len(rows) : rows[i] = getRecordById(Cur, i)

\* The filter on a column of known type is applied: with "1" on n, Find
\* leaves the rows that hold 1 in n.
KnownFilterApplied ==
  (/\ last.op = "Find"
   /\ lastErrorText = ""
   /\ "n" \in DOMAIN filteredFields
   /\ filteredFields["n"] = <<"1">>)
    => \A i \in 1..Len(rows) : rows[i].n = GoInt64(1)

====
